---- MODULE Spec2Model ----
(***************************************************************************)
(* Versioned, hierarchical topic store (TopicService over TopicRepository  *)
(* over InMemoryDatabase) and the shortest-path search over the derived    *)
(* topic graph.                                                            *)
(*                                                                         *)
(* Strings of the program are modelled by a small pool of tokens.  Topic   *)
(* ids, topic names and parent ids are all plain strings in the code and   *)
(* are drawn from the same pool, because the code compares them with each  *)
(* other (TopicService.delete looks versions up by topic.name).            *)
(***************************************************************************)
EXTENDS Integers, Sequences, FiniteSets, TLC

VARIABLES
    topics,        \* InMemoryDatabase.topics: the version array stored under each key
    order,         \* insertion order of the keys of the Map InMemoryDatabase.topics
    ret,           \* what the last service call was and what it returned or threw
    users,         \* InMemoryDatabase.users: the User object stored under each id
    usersByEmail,  \* InMemoryDatabase.usersByEmail: the User object under each email
    userObjs,      \* the User objects constructed so far and their current fields
    dump,          \* the value the last exportData() returned, kept by the caller
    calls          \* the update calls in flight: where each one is and what it holds

vars == <<topics, order, ret, users, usersByEmail, userObjs, dump, calls>>

\* the state outside the topic store and the last return value
otherVars == <<users, usersByEmail, userObjs, dump, calls>>

NoRef == 0                 \* Map.get(key) of an absent key: undefined
NoDump == [held |-> FALSE]  \* no exportData() result is held
NoCalls == <<>>            \* no update call is in flight

\* a run that creates no user, takes no export and has no call in flight
InitOther ==
    /\ users = <<>>
    /\ usersByEmail = <<>>
    /\ userObjs = <<>>
    /\ dump = NoDump
    /\ calls = NoCalls

----------------------------------------------------------------------------
(* Bounds of the model *)

NumStrs == 2        \* strings used as ids, names and parent ids under Spec
NumContents == 2    \* distinct well-formed content strings
MaxVersion == 2     \* highest version number a snapshot gets under Spec
MaxSnapshots == 2   \* most snapshots the store holds under Spec
NumHierStrs == 3    \* strings used as ids and parent ids under SpecHier
MaxHierSnapshots == 5   \* most snapshots the store holds under SpecHier
NumPathStrs == 3    \* strings used as ids and parent ids under SpecPath

StrPool == <<"t1", "t2", "t3", "t4", "t5", "t6">>
ContentPool == <<"c1", "c2", "c3", "c4">>

Strs == {StrPool[i] : i \in 1..NumStrs}
Contents == {ContentPool[i] : i \in 1..NumContents}
HierStrs == {StrPool[i] : i \in 1..NumHierStrs}
PathStrs == {StrPool[i] : i \in 1..NumPathStrs}

----------------------------------------------------------------------------
(* Values of the language *)

Undefined == "<undefined>"   \* JavaScript undefined: an absent optional field
EmptyStr == ""               \* the empty string (falsy)
BlankStr == " "              \* a string of white space only (truthy, trims to "")
LongStr == "<256 chars>"     \* a string of more than 255 characters

\* String.prototype.trim on the modelled strings
Trim(s) == IF s = BlankStr THEN EmptyStr ELSE s

\* String.prototype.length on the modelled strings
StrLength(s) ==
    IF s = EmptyStr THEN 0
    ELSE IF s = BlankStr THEN 1
    ELSE IF s = LongStr THEN 256
    ELSE 2

Null == "<null>"             \* JavaScript null

\* JavaScript truthiness of an optional string
Truthy(s) == s /= Undefined /\ s /= Null /\ s /= EmptyStr

----------------------------------------------------------------------------
(* Topic snapshots *)

\* new Topic(name, content, parentTopicId, version, id)
Topic(name, content, parentTopicId, version, id) ==
    [id |-> id, name |-> name, content |-> content,
     version |-> version, parentTopicId |-> parentTopicId]

\* Topic.getValidationErrors: the set of error messages
getValidationErrors(topic) ==
    (IF ~Truthy(topic.name) \/ StrLength(Trim(topic.name)) = 0
        THEN {"Name is required"} ELSE {})
    \cup (IF Truthy(topic.name) /\ StrLength(topic.name) > 255
        THEN {"Name must be less than 255 characters"} ELSE {})
    \cup (IF ~Truthy(topic.content) \/ StrLength(Trim(topic.content)) = 0
        THEN {"Content is required"} ELSE {})
    \cup (IF topic.version < 1
        THEN {"Version must be greater than 0"} ELSE {})

\* Topic.validate
validate(topic) == getValidationErrors(topic) = {}

\* createNewVersion without the increment of the version
createNewVersion_sameVersion(topic) ==
    Topic(topic.name, topic.content, topic.parentTopicId, topic.version, topic.id)

\* Topic.createNewVersion: same id and fields, version + 1
createNewVersion(topic) ==
    Topic(topic.name, topic.content, topic.parentTopicId, topic.version + 1, topic.id)

----------------------------------------------------------------------------
(* InMemoryDatabase: topic operations.  t is the Map's content (the version *)
(* array under each string, <<>> when the key is absent), ord the keys in   *)
(* insertion order.                                                         *)

\* the index of the first element of versions with this version number, 0 if none
\* (Array.prototype.findIndex, shifted by one)
findIndex(versions, version) ==
    IF \E i \in 1..Len(versions) : versions[i].version = version
    THEN CHOOSE i \in 1..Len(versions) :
            /\ versions[i].version = version
            /\ \A j \in 1..(i - 1) : versions[j].version /= version
    ELSE 0

\* insert snapshot x into the ascending list s, after the entries not above it
InsertByVersion(s, x) ==
    LET below == {i \in 1..Len(s) : s[i].version <= x.version}
        k == Cardinality(below)
    IN  SubSeq(s, 1, k) \o <<x>> \o SubSeq(s, k + 1, Len(s))

\* versions.sort((a, b) => a.version - b.version)
RECURSIVE sortByVersion(_)
sortByVersion(s) ==
    IF Len(s) <= 1 THEN s
    ELSE InsertByVersion(sortByVersion(SubSeq(s, 1, Len(s) - 1)), s[Len(s)])

\* the keys of the Map
Keys(ord) == {ord[i] : i \in 1..Len(ord)}

\* saveTopic that appends the snapshot even when its version number is stored
saveTopicVersions_alwaysPush(versions, topic) == sortByVersion(Append(versions, topic))

\* InMemoryDatabase.saveTopic: the version array stored under topic.id afterwards
saveTopicVersions(versions, topic) ==
    LET existingVersionIndex == findIndex(versions, topic.version)
    IN  IF existingVersionIndex >= 1
        THEN [versions EXCEPT ![existingVersionIndex] = topic]
        ELSE sortByVersion(Append(versions, topic))

\* this.topics.get(id) || []
mapGet(t, id) == IF id \in DOMAIN t THEN t[id] ELSE <<>>

\* InMemoryDatabase.saveTopic: the Map afterwards
saveTopic(t, topic) ==
    [t EXCEPT ![topic.id] = saveTopicVersions(mapGet(t, topic.id), topic)]

\* Map.set keeps the position of a key it already holds and appends a new one
mapSetOrder(ord, key) == IF key \in Keys(ord) THEN ord ELSE Append(ord, key)

\* findTopicById returning the first entry of the list, not the last
findTopicById_oldest(t, id) ==
    LET versions == mapGet(t, id)
    IN  IF Len(versions) = 0 THEN <<>> ELSE <<versions[1]>>

\* InMemoryDatabase.findTopicById(id): the latest version, as a list of one, or <<>>
findTopicById(t, id) ==
    LET versions == mapGet(t, id)
    IN  IF Len(versions) = 0 THEN <<>> ELSE <<versions[Len(versions)]>>

\* InMemoryDatabase.findTopicById with a version: <<>> for null
findTopicByIdVersion(t, id, version) ==
    LET versions == mapGet(t, id)
        i == findIndex(versions, version)
    IN  IF Len(versions) = 0 \/ i = 0 THEN <<>> ELSE <<versions[i]>>

\* InMemoryDatabase.findTopicVersions
findTopicVersions(t, id) == mapGet(t, id)

\* InMemoryDatabase.findAllTopics: the latest version under each key, in Map order
RECURSIVE findAllTopics(_, _)
findAllTopics(t, ord) ==
    IF Len(ord) = 0 THEN <<>>
    ELSE findTopicById(t, ord[1]) \o findAllTopics(t, Tail(ord))

\* Array.prototype.filter for the predicate "parentTopicId === parentId"
RECURSIVE filterByParent(_, _)
filterByParent(list, parentId) ==
    IF Len(list) = 0 THEN <<>>
    ELSE (IF list[1].parentTopicId = parentId THEN <<list[1]>> ELSE <<>>)
         \o filterByParent(Tail(list), parentId)

\* InMemoryDatabase.findTopicsByParentId
findTopicsByParentId(t, ord, parentId) == filterByParent(findAllTopics(t, ord), parentId)

\* InMemoryDatabase.deleteTopic: the Map afterwards (Map.delete)
deleteTopic(t, id) == [t EXCEPT ![id] = <<>>]

\* Map.delete on the key order
RECURSIVE mapDeleteOrder(_, _)
mapDeleteOrder(ord, key) ==
    IF Len(ord) = 0 THEN <<>>
    ELSE (IF ord[1] = key THEN <<>> ELSE <<ord[1]>>) \o mapDeleteOrder(Tail(ord), key)

----------------------------------------------------------------------------
(* What the last call was and what it returned or threw: args are the ids   *)
(* the call was given, value the list of returned topics (none, one, or a   *)
(* path of several).                                                        *)

Ret(op, args, status, value) ==
    [op |-> op, args |-> args, status |-> status, value |-> value]

\* the strings that occur in the store as a key, a name or a parent id
InUse(t, ord) ==
    Keys(ord)
    \cup UNION {UNION {{t[k][i].name, t[k][i].parentTopicId} : i \in 1..Len(t[k])} :
                    k \in DOMAIN t}

\* uuidv4(): a string of the run's pool (the strings t is defined on) that occurs
\* nowhere yet
FreshIds(t, ord) == (DOMAIN t) \ InUse(t, ord)

----------------------------------------------------------------------------
(* VersionedTopicFactory and TopicRepository.save *)

\* VersionedTopicFactory.createTopic: the factory's version choice;
\* version 0 stands for an absent data.version as well (data.version || 1)
factoryVersion(id, version) ==
    IF Truthy(id) THEN (IF version = 0 THEN 1 ELSE version) ELSE 1

\* save storing the topic before it looks at the result of validate
RepositorySave_storesFirst(op, args, topic) ==
    /\ topics' = saveTopic(topics, topic)
    /\ order' = mapSetOrder(order, topic.id)
    /\ ret' = IF ~validate(topic) THEN Ret(op, args, "ValidationFailed", <<>>)
              ELSE Ret(op, args, "ok", <<topic>>)

\* TopicRepository.save followed by InMemoryDatabase.saveTopic
RepositorySave(op, args, topic) ==
    IF ~validate(topic)
    THEN /\ ret' = Ret(op, args, "ValidationFailed", <<>>)
         /\ UNCHANGED <<topics, order>>
    ELSE /\ topics' = saveTopic(topics, topic)
         /\ order' = mapSetOrder(order, topic.id)
         /\ ret' = Ret(op, args, "ok", <<topic>>)

----------------------------------------------------------------------------
(* TopicService *)

\* TopicService.create(data) with data = {id, version, name, content, parentTopicId}
Create(id, version, name, content, parentTopicId) ==
    IF ~Truthy(name) \/ ~Truthy(content)
    THEN /\ ret' = Ret("create", <<id>>, "ValidationError", <<>>)
         /\ UNCHANGED <<topics, order>>
    ELSE \E newId \in (IF Truthy(id) THEN {id} ELSE FreshIds(topics, order)) :
            RepositorySave("create", <<id>>,
                Topic(name, content, parentTopicId, factoryVersion(id, version), newId))

\* updatedVersion assigning data.parentTopicId even when the data leave it out
updatedVersion_parentNotCarried(existingTopic, name, content, parentTopicId) ==
    LET newVersion == createNewVersion(existingTopic)
        named == IF name /= Undefined
                 THEN [newVersion EXCEPT !.name = name] ELSE newVersion
        filled == IF content /= Undefined
                  THEN [named EXCEPT !.content = content] ELSE named
    IN  [filled EXCEPT !.parentTopicId = parentTopicId]

\* the new version TopicService.update builds from the latest one and the data
updatedVersion(existingTopic, name, content, parentTopicId) ==
    LET newVersion == createNewVersion(existingTopic)
        named == IF name /= Undefined
                 THEN [newVersion EXCEPT !.name = name] ELSE newVersion
        filled == IF content /= Undefined
                  THEN [named EXCEPT !.content = content] ELSE named
    IN  IF parentTopicId /= Undefined
        THEN [filled EXCEPT !.parentTopicId = parentTopicId] ELSE filled

\* update that stores the data as version 1 of a new topic when the id is unknown
Update_createsWhenUnknown(id, name, content, parentTopicId) ==
    LET existingTopic == findTopicById(topics, id)
    IN  IF Len(existingTopic) = 0
        THEN RepositorySave("update", <<id>>, Topic(name, content, parentTopicId, 1, id))
        ELSE RepositorySave("update", <<id>>,
                updatedVersion(existingTopic[1], name, content, parentTopicId))

\* TopicService.update(id, data) with data = {name, content, parentTopicId}
Update(id, name, content, parentTopicId) ==
    LET existingTopic == findTopicById(topics, id)
    IN  IF Len(existingTopic) = 0
        THEN /\ ret' = Ret("update", <<id>>, "NotFound", <<>>)
             /\ UNCHANGED <<topics, order>>
        ELSE RepositorySave("update", <<id>>,
                updatedVersion(existingTopic[1], name, content, parentTopicId))

\* TopicService.delete(id)
Delete(id) ==
    LET topic == findTopicById(topics, id)
    IN  IF Len(topic) = 0
        THEN /\ ret' = Ret("delete", <<id>>, "false", <<>>)
             /\ UNCHANGED <<topics, order>>
        ELSE LET versions == findTopicVersions(topics, topic[1].name)
                 \* every element of versions has the id it is stored under, so the
                 \* loop's first repository.delete removes the key and the rest find nothing
                 deletedCount == IF Len(versions) > 0 THEN 1 ELSE 0
             IN  /\ topics' = IF Len(versions) > 0
                               THEN deleteTopic(topics, versions[1].id) ELSE topics
                 /\ order' = IF Len(versions) > 0
                              THEN mapDeleteOrder(order, versions[1].id) ELSE order
                 /\ ret' = Ret("delete", <<id>>,
                               IF deletedCount > 0 THEN "true" ELSE "false", <<>>)

\* TopicService.wouldCreateCircularReference: "true" or "false" as the loop returns,
\* "diverges" when the loop comes back to a currentParentId it has had, and so never ends
RECURSIVE circularWalk(_, _, _, _)
circularWalk(t, topicId, currentParentId, seen) ==
    IF ~Truthy(currentParentId) THEN "false"
    ELSE IF currentParentId = topicId THEN "true"
    ELSE IF currentParentId \in seen THEN "diverges"
    ELSE LET parent == findTopicById(t, currentParentId)
         IN  IF Len(parent) = 0 THEN "false"
             ELSE circularWalk(t, topicId, parent[1].parentTopicId,
                               seen \cup {currentParentId})

\* wouldCreateCircularReference comparing the new parent alone, not its ancestors
wouldCreateCircularReference_selfOnly(t, topicId, newParentId) ==
    IF newParentId = topicId THEN "true" ELSE "false"

wouldCreateCircularReference(t, topicId, newParentId) ==
    circularWalk(t, topicId, newParentId, {})

\* moveTopic without the circular-reference check
Move_unchecked(topicId, newParentId) ==
    LET topic == findTopicById(topics, topicId)
    IN  IF Len(topic) = 0
        THEN /\ ret' = Ret("move", <<topicId, newParentId>>, "NotFound", <<>>)
             /\ UNCHANGED <<topics, order>>
        ELSE RepositorySave("move", <<topicId, newParentId>>,
                [createNewVersion(topic[1]) EXCEPT
                    !.parentTopicId = IF Truthy(newParentId) THEN newParentId ELSE Undefined])

\* moveTopic writing the new parent into the latest version instead of a new one
Move_inPlace(topicId, newParentId) ==
    LET topic == findTopicById(topics, topicId)
        circular == IF Truthy(newParentId)
                    THEN wouldCreateCircularReference(topics, topicId, newParentId)
                    ELSE "false"
    IN  IF Len(topic) = 0
        THEN /\ ret' = Ret("move", <<topicId, newParentId>>, "NotFound", <<>>)
             /\ UNCHANGED <<topics, order>>
        ELSE IF circular = "diverges"
        THEN /\ ret' = Ret("move", <<topicId, newParentId>>, "Diverges", <<>>)
             /\ UNCHANGED <<topics, order>>
        ELSE IF circular = "true"
        THEN /\ ret' = Ret("move", <<topicId, newParentId>>, "CircularReference", <<>>)
             /\ UNCHANGED <<topics, order>>
        ELSE RepositorySave("move", <<topicId, newParentId>>,
                [topic[1] EXCEPT
                    !.parentTopicId = IF Truthy(newParentId) THEN newParentId ELSE Undefined])

\* TopicService.moveTopic(topicId, newParentId)
Move(topicId, newParentId) ==
    LET topic == findTopicById(topics, topicId)
        circular == IF Truthy(newParentId)
                    THEN wouldCreateCircularReference(topics, topicId, newParentId)
                    ELSE "false"
    IN  IF Len(topic) = 0
        THEN /\ ret' = Ret("move", <<topicId, newParentId>>, "NotFound", <<>>)
             /\ UNCHANGED <<topics, order>>
        ELSE IF circular = "diverges"
        THEN /\ ret' = Ret("move", <<topicId, newParentId>>, "Diverges", <<>>)
             /\ UNCHANGED <<topics, order>>
        ELSE IF circular = "true"
        THEN /\ ret' = Ret("move", <<topicId, newParentId>>, "CircularReference", <<>>)
             /\ UNCHANGED <<topics, order>>
        ELSE RepositorySave("move", <<topicId, newParentId>>,
                [createNewVersion(topic[1]) EXCEPT
                    !.parentTopicId = IF Truthy(newParentId) THEN newParentId ELSE Undefined])

----------------------------------------------------------------------------
(* ShortestPathAlgorithm.  A node of nodeMap is kept as its entries in dist *)
(* and prev; the nodes not yet visited are the sequence unvisited, in the   *)
(* iteration order of the Set.                                              *)

Infinity == 1000000      \* the distance of a node not reached yet
NoNode == "<no node>"    \* previous: null, currentNode: null

\* Topic.getParent
getParent(t, topic) ==
    IF ~Truthy(topic.parentTopicId) THEN <<>> ELSE findTopicById(t, topic.parentTopicId)

\* Topic.getChildren
getChildren(t, ord, topic) == findTopicsByParentId(t, ord, topic.id)

\* the siblings loop of getNeighbors: the topics of the list that are not topicId
RECURSIVE withoutId(_, _)
withoutId(list, topicId) ==
    IF Len(list) = 0 THEN <<>>
    ELSE (IF list[1].id /= topicId THEN <<list[1]>> ELSE <<>>)
         \o withoutId(Tail(list), topicId)

\* getNeighbors without the children of the topic
getNeighbors_noChildren(t, ord, topic) ==
    getParent(t, topic)
    \o (IF Truthy(topic.parentTopicId)
        THEN withoutId(findTopicsByParentId(t, ord, topic.parentTopicId), topic.id)
        ELSE <<>>)

\* ShortestPathAlgorithm.getNeighbors: parent, children, siblings, in this order
getNeighbors(t, ord, topic) ==
    getParent(t, topic)
    \o getChildren(t, ord, topic)
    \o (IF Truthy(topic.parentTopicId)
        THEN withoutId(findTopicsByParentId(t, ord, topic.parentTopicId), topic.id)
        ELSE <<>>)

\* ShortestPathAlgorithm.getEdgeWeight
getEdgeWeight(from, to) ==
    IF from.parentTopicId = to.id \/ to.parentTopicId = from.id THEN 1
    ELSE IF Truthy(from.parentTopicId) /\ from.parentTopicId = to.parentTopicId THEN 2
    ELSE 3

\* the scan for the unvisited node of minimum distance: the first node, in the
\* order of the Set, whose distance is below every distance before it
RECURSIVE minUnvisited(_, _, _, _)
minUnvisited(unvisited, dist, currentNode, minDistance) ==
    IF Len(unvisited) = 0 THEN currentNode
    ELSE IF dist[unvisited[1]] < minDistance
         THEN minUnvisited(Tail(unvisited), dist, unvisited[1], dist[unvisited[1]])
         ELSE minUnvisited(Tail(unvisited), dist, currentNode, minDistance)

\* the relaxation loop over the neighbors of the current node: dist and prev after it
RECURSIVE relax(_, _, _, _, _)
relax(neighbors, current, dist, prev, unvisited) ==
    IF Len(neighbors) = 0 THEN [dist |-> dist, prev |-> prev]
    ELSE LET neighbor == neighbors[1]
             newDistance == dist[current.id] + getEdgeWeight(current, neighbor)
         IN  IF /\ neighbor.id \in DOMAIN dist
                /\ neighbor.id \in Keys(unvisited)
                /\ newDistance < dist[neighbor.id]
             THEN relax(Tail(neighbors), current,
                        [dist EXCEPT ![neighbor.id] = newDistance],
                        [prev EXCEPT ![neighbor.id] = current.id], unvisited)
             ELSE relax(Tail(neighbors), current, dist, prev, unvisited)

\* ShortestPathAlgorithm.reconstructPath: the topics from the source to the target
RECURSIVE reconstructPath(_, _, _)
reconstructPath(t, prev, target) ==
    IF target = NoNode THEN <<>>
    ELSE reconstructPath(t, prev, prev[target]) \o findTopicById(t, target)

\* the while loop of findShortestPath
RECURSIVE searchLoop(_, _, _, _, _, _)
searchLoop(t, ord, toId, dist, prev, unvisited) ==
    IF Len(unvisited) = 0 THEN <<>>
    ELSE LET currentNode == minUnvisited(unvisited, dist, NoNode, Infinity)
         IN  IF currentNode = NoNode THEN <<>>
             ELSE IF currentNode = toId THEN reconstructPath(t, prev, currentNode)
             ELSE LET current == findTopicById(t, currentNode)[1]
                      left == mapDeleteOrder(unvisited, currentNode)
                      after == relax(getNeighbors(t, ord, current), current,
                                     dist, prev, left)
                  IN  searchLoop(t, ord, toId, after.dist, after.prev, left)

\* the ids of a list of topics
RECURSIVE idsOf(_)
idsOf(list) == IF Len(list) = 0 THEN <<>> ELSE <<list[1].id>> \o idsOf(Tail(list))

\* ShortestPathAlgorithm.findShortestPath
findShortestPath(t, ord, fromId, toId) ==
    IF fromId = toId THEN findTopicById(t, fromId)
    ELSE IF Len(findTopicById(t, fromId)) = 0 \/ Len(findTopicById(t, toId)) = 0 THEN <<>>
    ELSE LET allIds == idsOf(findAllTopics(t, ord))
         IN  searchLoop(t, ord, toId,
                        [k \in Keys(allIds) |-> IF k = fromId THEN 0 ELSE Infinity],
                        [k \in Keys(allIds) |-> NoNode],
                        allIds)

\* TopicService.findShortestPath(fromTopicId, toTopicId)
FindShortestPath(fromTopicId, toTopicId) ==
    /\ ret' = Ret("findShortestPath", <<fromTopicId, toTopicId>>, "ok",
                  findShortestPath(topics, order, fromTopicId, toTopicId))
    /\ UNCHANGED <<topics, order>>

----------------------------------------------------------------------------
(* TopicService.getTopicTree: the tree {topic, children} is built by a      *)
(* recursion over findByParentId.  The recursion has no visited set; onPath *)
(* holds the ids of the calls of buildTopicTree that are on the stack, and  *)
(* a topic met again while it is on the stack means the recursion never     *)
(* ends.                                                                    *)

Diverging == [diverges |-> TRUE]    \* the outcome of a recursion that never returns

RECURSIVE buildTopicTree_noGrandchildren(_, _, _, _)
RECURSIVE buildTopicTree(_, _, _, _)
RECURSIVE buildChildTrees(_, _, _, _)

\* the loop "for (const child of children)" of buildTopicTree
buildChildTrees(t, ord, children, onPath) ==
    IF Len(children) = 0 THEN <<>>
    ELSE <<buildTopicTree(t, ord, children[1], onPath)>>
         \o buildChildTrees(t, ord, Tail(children), onPath)

\* buildTopicTree that gives every child an empty children list
buildTopicTree_noGrandchildren(t, ord, topic, onPath) ==
    [topic |-> topic,
     children |-> LET children == findTopicsByParentId(t, ord, topic.id)
                  IN  [i \in 1..Len(children) |-> [topic |-> children[i], children |-> <<>>]]]

\* TopicService.buildTopicTree
buildTopicTree(t, ord, topic, onPath) ==
    IF topic.id \in onPath THEN Diverging
    ELSE LET children == findTopicsByParentId(t, ord, topic.id)
             childTrees == buildChildTrees(t, ord, children, onPath \cup {topic.id})
         IN  IF \E i \in 1..Len(childTrees) : childTrees[i] = Diverging
             THEN Diverging
             ELSE [topic |-> topic, children |-> childTrees]

\* TopicService.getTopicTree(id)
GetTopicTree(id) ==
    LET rootTopic == findTopicById(topics, id)
    IN  /\ ret' = IF Len(rootTopic) = 0
                  THEN Ret("getTopicTree", <<id>>, "NotFound", <<>>)
                  ELSE LET tree == buildTopicTree(topics, order, rootTopic[1], {})
                       IN  IF tree = Diverging
                           THEN Ret("getTopicTree", <<id>>, "Diverges", <<>>)
                           ELSE Ret("getTopicTree", <<id>>, "ok", <<tree>>)
        /\ UNCHANGED <<topics, order>>

----------------------------------------------------------------------------
(* TopicService.validateHierarchy.  An error message is modelled by a       *)
(* record of its fixed wording and the ids it names.                        *)

\* the loop of hasCircularReference from currentId on, with the ids visited so far
RECURSIVE hasCircularWalk(_, _, _)
hasCircularWalk(t, currentId, visited) ==
    IF ~Truthy(currentId) THEN FALSE
    ELSE IF currentId \in visited THEN TRUE
    ELSE LET topic == findTopicById(t, currentId)
         IN  IF Len(topic) = 0 THEN FALSE
             ELSE hasCircularWalk(t, topic[1].parentTopicId, visited \cup {currentId})

\* hasCircularReference that reports a topic only when the walk comes back to
\* the topic it started from
hasCircularReference_backToStartOnly(t, topicId) ==
    \E n \in 1..Cardinality(DOMAIN t) :
        LET RECURSIVE up(_, _)
            up(x, k) == IF k = 0 THEN x
                        ELSE LET topic == findTopicById(t, up(x, k - 1))
                             IN  IF Len(topic) = 0 THEN Undefined
                                 ELSE topic[1].parentTopicId
        IN  up(topicId, n) = topicId

\* TopicService.hasCircularReference(topicId)
hasCircularReference(t, topicId) == hasCircularWalk(t, topicId, {})

\* the errors validateHierarchy pushes for one topic
topicErrors(t, topic) ==
    (IF Truthy(topic.parentTopicId) /\ Len(findTopicById(t, topic.parentTopicId)) = 0
     THEN <<[msg |-> "references non-existent parent", topic |-> topic.id,
             parent |-> topic.parentTopicId]>>
     ELSE <<>>)
    \o (IF hasCircularReference(t, topic.id)
        THEN <<[msg |-> "has circular reference in hierarchy", topic |-> topic.id]>>
        ELSE <<>>)

\* the loop "for (const topic of allTopics)" of validateHierarchy
RECURSIVE hierarchyErrors(_, _)
hierarchyErrors(t, allTopics) ==
    IF Len(allTopics) = 0 THEN <<>>
    ELSE topicErrors(t, allTopics[1]) \o hierarchyErrors(t, Tail(allTopics))

\* TopicService.validateHierarchy()
ValidateHierarchy ==
    LET errors == hierarchyErrors(topics, findAllTopics(topics, order))
    IN  /\ ret' = Ret("validateHierarchy", <<>>, "ok",
                      <<[isValid |-> Len(errors) = 0, errors |-> errors]>>)
        /\ UNCHANGED <<topics, order>>

----------------------------------------------------------------------------
(* Users.  A User is an object: the Maps users and usersByEmail hold        *)
(* references to it, and UserService.update changes the object it got from  *)
(* the Map.  userObjs is the heap, a reference is an index into it, and a   *)
(* Map is the sequence of its [key, ref] entries in insertion order.        *)

NumUserIds == 2
NumEmails == 2
MaxUserObjs == 2

EmailPool == <<"a@x.io", "b@x.io", "c@x.io", "d@x.io">>
UserIds == {StrPool[i] : i \in 1..NumUserIds}
Emails == {EmailPool[i] : i \in 1..NumEmails}
BadEmail == "no-at-sign"     \* a string the email pattern does not match
UserName == "Ann"            \* a well-formed user name
Roles == {"Admin", "Editor", "Viewer"}    \* Object.values(UserRole)
BadRole == "Root"            \* a string that is no UserRole

\* User.isValidEmail: /^[^\s@]+@[^\s@]+\.[^\s@]+$/ on the modelled strings
isValidEmail(email) == email \notin {Undefined, EmptyStr, BlankStr, BadEmail, LongStr}

\* User.getValidationErrors(), as the set of its messages
userValidationErrors(user) ==
    (IF ~Truthy(user.name) \/ Trim(user.name) = EmptyStr
     THEN {"Name is required"} ELSE {})
    \cup (IF Truthy(user.name) /\ user.name = LongStr
          THEN {"Name must be less than 100 characters"} ELSE {})
    \cup (IF ~Truthy(user.email) \/ Trim(user.email) = EmptyStr
          THEN {"Email is required"} ELSE {})
    \cup (IF Truthy(user.email) /\ ~isValidEmail(user.email)
          THEN {"Email must be a valid email format"} ELSE {})
    \cup (IF user.role \notin Roles THEN {"Invalid user role"} ELSE {})

\* Map.get(key): the reference under key, NoRef when the key is absent
refGet(map, key) ==
    IF \E i \in 1..Len(map) : map[i].key = key
    THEN map[CHOOSE i \in 1..Len(map) : map[i].key = key].ref
    ELSE NoRef

\* Map.set(key, ref): an existing key keeps its place
refSet(map, key, ref) ==
    IF \E i \in 1..Len(map) : map[i].key = key
    THEN [i \in 1..Len(map) |-> IF map[i].key = key THEN [key |-> key, ref |-> ref]
                                                  ELSE map[i]]
    ELSE Append(map, [key |-> key, ref |-> ref])

\* Map.delete(key)
RECURSIVE refDelete(_, _)
refDelete(map, key) ==
    IF Len(map) = 0 THEN <<>>
    ELSE (IF map[1].key = key THEN <<>> ELSE <<map[1]>>) \o refDelete(Tail(map), key)

\* InMemoryDatabase.saveUser(user), user being the object at ref in heap objs:
\* the Maps afterwards
saveUser(us, byEmail, objs, ref) ==
    LET user == objs[ref]
        existingRef == refGet(us, user.id)
        cleaned == IF existingRef /= NoRef /\ objs[existingRef].email /= user.email
                   THEN refDelete(byEmail, objs[existingRef].email)
                   ELSE byEmail
    IN  [users |-> refSet(us, user.id, ref),
         usersByEmail |-> refSet(cleaned, user.email, ref)]

\* UserRepository.save(user) followed by InMemoryDatabase.saveUser, for the
\* object at ref of the heap objs (which the caller has built or changed).
\* When save throws, the heap is left as objsOnThrow: an object the caller has
\* just built is dropped with the call, a change to a stored object stays.
UserRepositorySave(op, args, objs, ref, objsOnThrow) ==
    LET user == objs[ref]
        existingRef == refGet(usersByEmail, user.email)
    IN  IF userValidationErrors(user) /= {}
        THEN /\ ret' = Ret(op, args, "ValidationFailed", <<>>)
             /\ userObjs' = objsOnThrow
             /\ UNCHANGED <<users, usersByEmail>>
        ELSE IF existingRef /= NoRef /\ objs[existingRef].id /= user.id
        THEN /\ ret' = Ret(op, args, "EmailExists", <<>>)
             /\ userObjs' = objsOnThrow
             /\ UNCHANGED <<users, usersByEmail>>
        ELSE /\ users' = saveUser(users, usersByEmail, objs, ref).users
             /\ usersByEmail' = saveUser(users, usersByEmail, objs, ref).usersByEmail
             /\ userObjs' = objs
             /\ ret' = Ret(op, args, "ok", <<user>>)

\* the strings in use as a user id
UserIdsInUse == {userObjs[i].id : i \in 1..Len(userObjs)}

\* UserService.create(data) with data = {id, name, email, role}
UserCreate(id, name, email, role) ==
    IF Truthy(email) /\ refGet(usersByEmail, email) /= NoRef
    THEN /\ ret' = Ret("createUser", <<id>>, "ConflictError", <<>>)
         /\ UNCHANGED <<users, usersByEmail, userObjs>>
    ELSE IF ~Truthy(name) \/ ~Truthy(email)
    THEN /\ ret' = Ret("createUser", <<id>>, "ValidationError", <<>>)
         /\ UNCHANGED <<users, usersByEmail, userObjs>>
    ELSE \E newId \in (IF Truthy(id) THEN {id} ELSE UserIds \ UserIdsInUse) :
            UserRepositorySave("createUser", <<id>>,
                Append(userObjs, [id |-> newId, name |-> name, email |-> email,
                                  role |-> IF Truthy(role) THEN role ELSE "Viewer"]),
                Len(userObjs) + 1, userObjs)

\* User.update(updateData): the fields of the object afterwards
userUpdated(user, name, email, role) ==
    [id |-> user.id,
     name |-> IF name /= Undefined THEN name ELSE user.name,
     email |-> IF email /= Undefined THEN email ELSE user.email,
     role |-> IF role /= Undefined THEN role ELSE user.role]

\* UserService.update(id, data) with data = {name, email, role}: the object the
\* Map holds is changed, then saved
UserUpdate(id, name, email, role) ==
    LET ref == refGet(users, id)
    IN  IF ref = NoRef
        THEN /\ ret' = Ret("updateUser", <<id>>, "NotFound", <<>>)
             /\ UNCHANGED <<users, usersByEmail, userObjs>>
        ELSE LET changed == [userObjs EXCEPT
                                ![ref] = userUpdated(userObjs[ref], name, email, role)]
             IN  UserRepositorySave("updateUser", <<id>>, changed, ref, changed)

\* UserService.delete(id): InMemoryDatabase.deleteUser
UserDelete(id) ==
    LET ref == refGet(users, id)
    IN  IF ref /= NoRef
        THEN /\ usersByEmail' = refDelete(usersByEmail, userObjs[ref].email)
             /\ users' = refDelete(users, id)
             /\ ret' = Ret("deleteUser", <<id>>, "true", <<>>)
             /\ UNCHANGED userObjs
        ELSE /\ ret' = Ret("deleteUser", <<id>>, "false", <<>>)
             /\ UNCHANGED <<users, usersByEmail, userObjs>>

----------------------------------------------------------------------------
(* InMemoryDatabase.exportData and importData.  The exported value holds,   *)
(* under "topics", an object with one property per key of the Map (ids: the *)
(* property order, versions: the array under each) and, under "users", the  *)
(* array of the users.  Time stamps and resources are left out of the       *)
(* model.                                                                   *)

\* Topic.toJSON()
topicToJSON(topic) ==
    [id |-> topic.id, name |-> topic.name, content |-> topic.content,
     version |-> topic.version, parentTopicId |-> topic.parentTopicId]

\* new Topic(...) of importData that leaves versionData.version out, so that the
\* constructor's default applies
topicFromJSON_defaultVersion(versionData) ==
    Topic(versionData.name, versionData.content, versionData.parentTopicId, 1,
          versionData.id)

\* new Topic(versionData.name, versionData.content, versionData.parentTopicId,
\*           versionData.version, versionData.id) of importData
topicFromJSON(versionData) ==
    Topic(versionData.name, versionData.content, versionData.parentTopicId,
          versionData.version, versionData.id)

\* User.toJSON(), without the derived permissions
userToJSON(user) ==
    [id |-> user.id, name |-> user.name, email |-> user.email, role |-> user.role]

\* InMemoryDatabase.exportData(): the value returned
exportData(t, ord, us, objs) ==
    [topics |-> [ids |-> ord,
                 versions |-> [k \in Keys(ord) |->
                                [i \in 1..Len(t[k]) |-> topicToJSON(t[k][i])]]],
     users |-> [i \in 1..Len(us) |-> userToJSON(objs[us[i].ref])]]

\* the Map users or usersByEmail after the loop of importData over the first n
\* users of the data; the object built for user i is at place i of the heap
RECURSIVE importedRefs(_, _, _)
importedRefs(userData, n, byEmail) ==
    IF n = 0 THEN <<>>
    ELSE refSet(importedRefs(userData, n - 1, byEmail),
                IF byEmail THEN userData[n].email ELSE userData[n].id, n)

\* exportData() called, its value kept
ExportData ==
    /\ dump' = exportData(topics, order, users, userObjs)
    /\ ret' = Ret("exportData", <<>>, "ok", <<dump'>>)
    /\ UNCHANGED <<topics, order, users, usersByEmail, userObjs>>

\* importData(data) with the value kept from the last export: clear(), then the
\* topics and the users of the data are built anew and put into the Maps
ImportData ==
    /\ dump /= NoDump
    /\ topics' = [s \in DOMAIN topics |->
                    IF s \in Keys(dump.topics.ids)
                    THEN [i \in 1..Len(dump.topics.versions[s]) |->
                            topicFromJSON(dump.topics.versions[s][i])]
                    ELSE <<>>]
    /\ order' = dump.topics.ids
    /\ userObjs' = [i \in 1..Len(dump.users) |->
                        [id |-> dump.users[i].id, name |-> dump.users[i].name,
                         email |-> dump.users[i].email, role |-> dump.users[i].role]]
    /\ users' = importedRefs(dump.users, Len(dump.users), FALSE)
    /\ usersByEmail' = importedRefs(dump.users, Len(dump.users), TRUE)
    /\ ret' = Ret("importData", <<>>, "ok", <<>>)
    /\ UNCHANGED dump

----------------------------------------------------------------------------
(* ShortestPathAlgorithm.calculateDistance and findAllPaths *)

\* ShortestPathAlgorithm.calculateDistance(fromId, toId)
calculateDistance(t, ord, fromId, toId) ==
    LET path == findShortestPath(t, ord, fromId, toId)
    IN  IF Len(path) > 0 THEN Len(path) - 1 ELSE 0 - 1

\* calculateDistance(fromId, toId) called
CalculateDistance(fromId, toId) ==
    /\ ret' = Ret("calculateDistance", <<fromId, toId>>, "ok",
                  <<calculateDistance(topics, order, fromId, toId)>>)
    /\ UNCHANGED <<topics, order>>

RECURSIVE dfsAllPaths(_, _, _, _, _, _, _)
RECURSIVE dfsNeighbors(_, _, _, _, _, _, _)

\* the loop over the neighbours in dfsAllPaths: the paths found through them, in
\* the order found; visited holds current.id
dfsNeighbors(t, ord, neighbors, targetId, currentPath, visited, maxDepth) ==
    IF Len(neighbors) = 0 THEN <<>>
    ELSE (IF neighbors[1].id \notin visited
          THEN dfsAllPaths(t, ord, neighbors[1], targetId,
                           Append(currentPath, neighbors[1]), visited, maxDepth)
          ELSE <<>>)
         \o dfsNeighbors(t, ord, Tail(neighbors), targetId, currentPath, visited, maxDepth)

\* ShortestPathAlgorithm.dfsAllPaths: the paths it pushes to allPaths.  The
\* call adds current.id to visited for its loop and deletes it at its end, so
\* the set goes down the recursion and comes back as it was.
dfsAllPaths(t, ord, current, targetId, currentPath, visited, maxDepth) ==
    IF Len(currentPath) > maxDepth THEN <<>>
    ELSE IF current.id = targetId THEN <<currentPath>>
    ELSE dfsNeighbors(t, ord, getNeighbors(t, ord, current), targetId, currentPath,
                      visited \cup {current.id}, maxDepth)

\* insert path x into the list s ordered by length, after the entries not longer
InsertByLength(s, x) ==
    LET k == Cardinality({i \in 1..Len(s) : Len(s[i]) <= Len(x)})
    IN  SubSeq(s, 1, k) \o <<x>> \o SubSeq(s, k + 1, Len(s))

\* allPaths.sort((a, b) => a.length - b.length), a stable sort
RECURSIVE sortByLength(_)
sortByLength(s) ==
    IF Len(s) <= 1 THEN s
    ELSE InsertByLength(sortByLength(SubSeq(s, 1, Len(s) - 1)), s[Len(s)])

\* ShortestPathAlgorithm.findAllPaths(fromId, toId, maxDepth)
findAllPaths(t, ord, fromId, toId, maxDepth) ==
    LET fromTopic == findTopicById(t, fromId)
    IN  IF fromId = toId
        THEN (IF Len(fromTopic) > 0 THEN <<fromTopic>> ELSE <<>>)
        ELSE IF Len(fromTopic) = 0 THEN <<>>
        ELSE sortByLength(dfsAllPaths(t, ord, fromTopic[1], toId, fromTopic, {}, maxDepth))

\* findAllPaths(fromId, toId, maxDepth) called
FindAllPaths(fromId, toId, maxDepth) ==
    /\ ret' = Ret("findAllPaths", <<fromId, toId, maxDepth>>, "ok",
                  findAllPaths(topics, order, fromId, toId, maxDepth))
    /\ UNCHANGED <<topics, order>>

----------------------------------------------------------------------------
(* Topic.getAncestors and TopicRepository.getMaxDepth.  The loop of          *)
(* getAncestors has no bound and no visited set: its next iteration depends  *)
(* on current alone, so a current it has had before means it never ends.     *)

\* the while loop of Topic.getAncestors: whether it never ends, and if it ends
\* the list it returns
RECURSIVE ancestorsLoop(_, _, _, _)
ancestorsLoop(t, current, ancestors, seen) ==
    IF Len(current) = 0 THEN [diverges |-> FALSE, ancestors |-> ancestors]
    ELSE IF current[1].id \in seen THEN Diverging
    ELSE ancestorsLoop(t, getParent(t, current[1]), current \o ancestors,
                       seen \cup {current[1].id})

\* Topic.getAncestors
getAncestors(t, topic) == ancestorsLoop(t, getParent(t, topic), <<>>, {})

\* repository.findById(id) and getAncestors() of the topic found
GetAncestors(id) ==
    LET topic == findTopicById(topics, id)
        ancestors == getAncestors(topics, topic[1])
    IN  /\ Len(topic) > 0
        /\ ret' = IF ancestors.diverges
                  THEN Ret("getAncestors", <<id>>, "Diverges", <<>>)
                  ELSE Ret("getAncestors", <<id>>, "ok", ancestors.ancestors)
        /\ UNCHANGED <<topics, order>>

\* the loop of TopicRepository.getMaxDepth over allTopics
RECURSIVE maxDepthLoop(_, _, _)
maxDepthLoop(t, allTopics, maxDepth) ==
    IF Len(allTopics) = 0 THEN maxDepth
    ELSE LET ancestors == getAncestors(t, allTopics[1])
         IN  IF ancestors.diverges THEN 0 - 1
             ELSE LET depth == Len(ancestors.ancestors) + 1
                  IN  maxDepthLoop(t, Tail(allTopics),
                                   IF depth > maxDepth THEN depth ELSE maxDepth)

\* TopicRepository.getMaxDepth: the depth, or -1 for a call that never returns
getMaxDepth(t, ord) == maxDepthLoop(t, findAllTopics(t, ord), 0)

\* TopicService.getMaxDepth()
GetMaxDepth ==
    /\ ret' = IF getMaxDepth(topics, order) < 0
              THEN Ret("getMaxDepth", <<>>, "Diverges", <<>>)
              ELSE Ret("getMaxDepth", <<>>, "ok", <<getMaxDepth(topics, order)>>)
    /\ UNCHANGED <<topics, order>>

----------------------------------------------------------------------------
(* TopicComponentFactory.buildTree.  The components are objects that hold    *)
(* their children; the forest is modelled by the ids of the returned roots,  *)
(* in order, and the ids of the children of each component, in the order of  *)
(* the calls of add.                                                         *)

\* the topics of the list that take the else branch of the second pass
RECURSIVE withoutParentId(_)
withoutParentId(list) ==
    IF Len(list) = 0 THEN <<>>
    ELSE (IF Truthy(list[1].parentTopicId) THEN <<>> ELSE <<list[1]>>)
         \o withoutParentId(Tail(list))

\* TopicComponentFactory.buildTree(topics).  A component that topicMap holds
\* under some topic's parentTopicId was created with hasChildren true, so it is
\* a TopicComposite and add is called on it.
buildTree(allTopics) ==
    [roots |-> idsOf(withoutParentId(allTopics)),
     children |-> [id \in {allTopics[i].id : i \in 1..Len(allTopics)} |->
                      idsOf(filterByParent(allTopics, id))]]

\* buildTree(await repository.findAll()) called
BuildTree ==
    /\ ret' = Ret("buildTree", <<>>, "ok", <<buildTree(findAllTopics(topics, order))>>)
    /\ UNCHANGED <<topics, order>>

----------------------------------------------------------------------------
(* The service as a state machine: calls run one at a time, each to its end *)

\* a call that never returns leaves no later call to run
Running == ret.status /= "Diverges"

\* number of snapshots the store holds
RECURSIVE CountSnapshots(_, _)
CountSnapshots(t, ord) ==
    IF Len(ord) = 0 THEN 0 ELSE Len(mapGet(t, ord[1])) + CountSnapshots(t, Tail(ord))

\* the part of the state space the model explores
Bounded ==
    /\ CountSnapshots(topics, order) <= MaxSnapshots
    /\ \A k \in DOMAIN topics : \A i \in 1..Len(topics[k]) : topics[k][i].version <= MaxVersion

ParentInputs == {Undefined} \cup Strs
NewParentInputs == {Null} \cup Strs
BadNames == {Undefined, EmptyStr, BlankStr, LongStr}
BadContents == {Undefined, EmptyStr, BlankStr}

\* the data of the create calls: every combination of well-formed fields, and
\* every ill-formed value of one field at a time.  Version 0 is no version given
\* (the factory then takes 1, as it does for a given 1).
CreateData ==
    [id : Strs, version : {0} \cup (2..MaxVersion), name : Strs, content : Contents,
     parentTopicId : ParentInputs]
    \cup [id : {Undefined}, version : {0, MaxVersion}, name : Strs, content : Contents,
          parentTopicId : ParentInputs]
    \cup [id : {Undefined} \cup Strs, version : {0}, name : BadNames,
          content : {ContentPool[1]}, parentTopicId : {Undefined}]
    \cup [id : {Undefined} \cup Strs, version : {0}, name : {StrPool[1]},
          content : BadContents, parentTopicId : {Undefined}]
    \cup [id : {Undefined} \cup Strs, version : {0 - 1}, name : {StrPool[1]},
          content : {ContentPool[1]}, parentTopicId : {Undefined}]

\* the data of the update calls, likewise; Undefined is a field left out
UpdateData ==
    [name : {Undefined} \cup Strs, content : {Undefined} \cup Contents,
     parentTopicId : ParentInputs]
    \cup [name : BadNames, content : {Undefined}, parentTopicId : {Undefined}]
    \cup [name : {Undefined}, content : BadContents, parentTopicId : {Undefined}]

Init ==
    /\ topics = [s \in Strs |-> <<>>]
    /\ order = <<>>
    /\ ret = Ret("init", <<>>, "ok", <<>>)
    /\ InitOther

CreateCall ==
    \E d \in CreateData :
        /\ Running /\ Create(d.id, d.version, d.name, d.content, d.parentTopicId) /\ Bounded'
        /\ UNCHANGED otherVars

UpdateCall ==
    \E id \in Strs, d \in UpdateData :
        /\ Running /\ Update(id, d.name, d.content, d.parentTopicId) /\ Bounded'
        /\ UNCHANGED otherVars

MoveCall ==
    \E id \in Strs, newParentId \in NewParentInputs :
        /\ Running /\ Move(id, newParentId) /\ Bounded'
        /\ UNCHANGED otherVars

DeleteCall ==
    \E id \in Strs : Running /\ Delete(id) /\ Bounded' /\ UNCHANGED otherVars

Next == CreateCall \/ UpdateCall \/ MoveCall \/ DeleteCall

Spec == Init /\ [][Next]_vars

----------------------------------------------------------------------------
(* The writes of Spec together with getTopicTree *)

LookupTreeCall ==
    \E id \in Strs : Running /\ GetTopicTree(id) /\ UNCHANGED otherVars

NextLookup == CreateCall \/ UpdateCall \/ MoveCall \/ DeleteCall \/ LookupTreeCall

SpecLookup == Init /\ [][NextLookup]_vars

----------------------------------------------------------------------------
(* The hierarchy built by create and move alone: every create gets its id   *)
(* from uuidv4() and names a parent that is absent or stored; the name and  *)
(* content, which neither call reads, are fixed.                            *)

HierName == "topic"    \* a well-formed name that is no id

HierBounded == CountSnapshots(topics, order) <= MaxHierSnapshots

InitHier ==
    /\ topics = [s \in HierStrs |-> <<>>]
    /\ order = <<>>
    /\ ret = Ret("init", <<>>, "ok", <<>>)
    /\ InitOther

HierCreateCall ==
    \E parentTopicId \in {Undefined} \cup Keys(order) :
        /\ Running /\ Create(Undefined, 0, HierName, ContentPool[1], parentTopicId)
        /\ HierBounded'
        /\ UNCHANGED otherVars

HierMoveCall ==
    \E id \in HierStrs, newParentId \in {Null} \cup HierStrs :
        /\ Running /\ Move(id, newParentId) /\ HierBounded'
        /\ UNCHANGED otherVars

NextHier == HierCreateCall \/ HierMoveCall

SpecHier == InitHier /\ [][NextHier]_vars

----------------------------------------------------------------------------
(* The repository called directly: snapshots of any version are saved in any *)
(* order and looked up with and without a version.                          *)

MaxStoreVersion == 3    \* highest version number of a saved snapshot

\* the snapshots given to save: well-formed ones, and one of version 0
StoreSnapshots ==
    {Topic(HierName, content, Undefined, version, id) :
        content \in Contents, version \in 0..MaxStoreVersion, id \in Strs}

\* TopicRepository.save(topic)
SaveCall ==
    \E topic \in StoreSnapshots :
        /\ RepositorySave("save", <<topic.id, topic.version>>, topic)
        /\ UNCHANGED otherVars

\* TopicRepository.findById(id)
FindByIdCall ==
    \E id \in Strs :
        /\ ret' = Ret("findById", <<id>>, "ok", findTopicById(topics, id))
        /\ UNCHANGED <<topics, order>>
        /\ UNCHANGED otherVars

\* TopicRepository.findById(id, version)
FindByIdVersionCall ==
    \E id \in Strs, version \in 1..MaxStoreVersion :
        /\ ret' = Ret("findByIdVersion", <<id, version>>, "ok",
                      findTopicByIdVersion(topics, id, version))
        /\ UNCHANGED <<topics, order>>
        /\ UNCHANGED otherVars

NextStore == SaveCall \/ FindByIdCall \/ FindByIdVersionCall

SpecStore == Init /\ [][NextStore]_vars

----------------------------------------------------------------------------
(* Two update calls in flight at once.  TopicService.update is an async     *)
(* function: it runs to its first await, and each continuation runs as one  *)
(* step when the event loop resumes it.  repository.findById reads the      *)
(* store when it is called, so the call itself is the read; the first       *)
(* continuation builds the new version and enters repository.save, which    *)
(* awaits topic.validate(); the second continuation throws or stores.       *)

Writers == {"w1", "w2"}    \* the two calls

RaceId == StrPool[1]       \* the id of the stored topic both calls may name

\* the contents the calls bring, none of them stored at the start
RaceContents == {ContentPool[i] : i \in 2..(NumContents + 1)}

\* the data of the two calls
RaceData ==
    [name : {Undefined, StrPool[2]}, content : {Undefined, BlankStr} \cup RaceContents,
     parentTopicId : {Undefined}]

IdleCall == [pc |-> "idle"]

\* the versions 1..n of one topic, as a create and n - 1 updates leave them
RECURSIVE VersionsUpTo(_)
VersionsUpTo(n) ==
    IF n = 0 THEN <<>>
    ELSE Append(VersionsUpTo(n - 1), Topic(HierName, ContentPool[1], Undefined, n, RaceId))

InitRace ==
    \E k \in 1..MaxVersion :
        /\ topics = [s \in Strs |-> IF s = RaceId THEN VersionsUpTo(k) ELSE <<>>]
        /\ order = <<RaceId>>
        /\ ret = Ret("init", <<>>, "ok", <<>>)
        /\ calls = [w \in Writers |-> IdleCall]
        /\ users = <<>> /\ usersByEmail = <<>> /\ userObjs = <<>> /\ dump = NoDump

\* number of saves the calls have made so far
SavesDone == Cardinality({w \in Writers : calls[w].pc = "done" /\ calls[w].status = "ok"})

\* update(id, data) is called: findById(id) reads the store, the call awaits it
UpdateBegin(w, id, data) ==
    /\ calls[w].pc = "idle"
    /\ calls' = [calls EXCEPT ![w] = [pc |-> "awaitFindById", id |-> id, data |-> data,
                                      existingTopic |-> findTopicById(topics, id)]]
    /\ UNCHANGED <<topics, order, ret>>

\* the call resumes with existingTopic: it throws not found, or builds newVersion
\* and calls repository.save, which awaits newVersion.validate()
UpdateBuild(w) ==
    /\ calls[w].pc = "awaitFindById"
    /\ IF Len(calls[w].existingTopic) = 0
       THEN /\ calls' = [calls EXCEPT ![w] = [pc |-> "done", id |-> calls[w].id,
                                              data |-> calls[w].data,
                                              status |-> "NotFound"]]
            /\ ret' = Ret("update", <<calls[w].id>>, "NotFound", <<>>)
       ELSE /\ calls' = [calls EXCEPT ![w] =
                            [pc |-> "awaitValidate", id |-> calls[w].id,
                             data |-> calls[w].data,
                             readVersion |-> calls[w].existingTopic[1].version,
                             newVersion |-> updatedVersion(calls[w].existingTopic[1],
                                                calls[w].data.name, calls[w].data.content,
                                                calls[w].data.parentTopicId)]]
            /\ ret' = ret
    /\ UNCHANGED <<topics, order>>

\* repository.save resumes with isValid: it throws, or stores newVersion and
\* the call returns it
UpdateSave(w) ==
    /\ calls[w].pc = "awaitValidate"
    /\ IF ~validate(calls[w].newVersion)
       THEN /\ calls' = [calls EXCEPT ![w] = [pc |-> "done", id |-> calls[w].id,
                                              data |-> calls[w].data,
                                              status |-> "ValidationFailed"]]
            /\ ret' = Ret("update", <<calls[w].id>>, "ValidationFailed", <<>>)
            /\ UNCHANGED <<topics, order>>
       ELSE /\ topics' = saveTopic(topics, calls[w].newVersion)
            /\ order' = mapSetOrder(order, calls[w].newVersion.id)
            /\ calls' = [calls EXCEPT ![w] = [pc |-> "done", id |-> calls[w].id,
                                              data |-> calls[w].data,
                                              status |-> "ok",
                                              readVersion |-> calls[w].readVersion,
                                              newVersion |-> calls[w].newVersion,
                                              saveNo |-> SavesDone + 1]]
            /\ ret' = Ret("update", <<calls[w].id>>, "ok", <<calls[w].newVersion>>)

UpdateBeginStep ==
    \E w \in Writers, id \in Strs, data \in RaceData :
        UpdateBegin(w, id, data) /\ UNCHANGED <<users, usersByEmail, userObjs, dump>>

UpdateBuildStep ==
    \E w \in Writers : UpdateBuild(w) /\ UNCHANGED <<users, usersByEmail, userObjs, dump>>

UpdateSaveStep ==
    \E w \in Writers : UpdateSave(w) /\ UNCHANGED <<users, usersByEmail, userObjs, dump>>

NextRace == UpdateBeginStep \/ UpdateBuildStep \/ UpdateSaveStep

SpecRace == InitRace /\ [][NextRace]_vars

----------------------------------------------------------------------------
(* The user service: create, update and delete calls, one at a time *)

\* the data of the user create calls: well-formed ones, and one ill-formed
\* field at a time
UserCreateData ==
    [id : {Undefined} \cup UserIds, name : {UserName}, email : Emails,
     role : {Undefined, "Admin"}]
    \cup [id : {Undefined}, name : {Undefined, BlankStr, LongStr}, email : Emails,
          role : {Undefined}]
    \cup [id : {Undefined}, name : {UserName}, email : {Undefined, BlankStr, BadEmail},
          role : {Undefined}]
    \cup [id : {Undefined}, name : {UserName}, email : Emails, role : {BadRole}]

\* the data of the user update calls, likewise
UserUpdateData ==
    [name : {Undefined}, email : {Undefined} \cup Emails, role : {Undefined, "Admin"}]
    \cup [name : {EmptyStr}, email : {Undefined}, role : {Undefined}]
    \cup [name : {Undefined}, email : {BadEmail}, role : {Undefined}]

UserBounded == Len(userObjs) <= MaxUserObjs

InitUsers ==
    /\ topics = [s \in Strs |-> <<>>]
    /\ order = <<>>
    /\ ret = Ret("init", <<>>, "ok", <<>>)
    /\ InitOther

UserCreateCall ==
    \E d \in UserCreateData :
        /\ UserCreate(d.id, d.name, d.email, d.role) /\ UserBounded'
        /\ UNCHANGED <<topics, order, dump, calls>>

UserUpdateCall ==
    \E id \in UserIds, d \in UserUpdateData :
        /\ UserUpdate(id, d.name, d.email, d.role)
        /\ UNCHANGED <<topics, order, dump, calls>>

UserDeleteCall ==
    \E id \in UserIds : UserDelete(id) /\ UNCHANGED <<topics, order, dump, calls>>

NextUsers == UserCreateCall \/ UserUpdateCall \/ UserDeleteCall

SpecUsers == InitUsers /\ [][NextUsers]_vars

----------------------------------------------------------------------------
(* Export and import between writes.  Topics are created under a given id   *)
(* with the id as their name, so that delete removes them.                  *)

TransferCreateCall ==
    \E id \in Strs, content \in Contents, parentTopicId \in ParentInputs :
        /\ Create(id, 0, id, content, parentTopicId) /\ Bounded'
        /\ UNCHANGED otherVars

TransferUpdateCall ==
    \E id \in Strs, content \in Contents :
        /\ Update(id, Undefined, content, Undefined) /\ Bounded'
        /\ UNCHANGED otherVars

TransferDeleteCall ==
    \E id \in Strs : Delete(id) /\ UNCHANGED otherVars

ExportDataCall == ExportData /\ UNCHANGED calls

ImportDataCall == ImportData /\ UNCHANGED calls

NextTransfer ==
    \/ TransferCreateCall \/ TransferUpdateCall \/ TransferDeleteCall
    \/ ExportDataCall \/ ImportDataCall

SpecTransfer == Init /\ [][NextTransfer]_vars

----------------------------------------------------------------------------
(* Path queries over any hierarchy of latest versions: the store starts as  *)
(* some set of topics at version 1, created in some order, each with any    *)
(* parent id (as create calls that give the id leave it), and is queried.   *)

\* the orders in which the keys can have entered the Map
KeyOrders(keys) ==
    {o \in [1..Cardinality(keys) -> keys] : \A i, j \in DOMAIN o : o[i] = o[j] => i = j}

InitPath ==
    \E keys \in SUBSET PathStrs :
        \E o \in KeyOrders(keys), parentOf \in [keys -> {Undefined} \cup PathStrs] :
            /\ topics = [s \in PathStrs |->
                            IF s \in keys
                            THEN <<Topic(HierName, ContentPool[1], parentOf[s], 1, s)>>
                            ELSE <<>>]
            /\ order = o
            /\ ret = Ret("init", <<>>, "ok", <<>>)
            /\ InitOther

FindShortestPathCall ==
    \E fromTopicId \in PathStrs, toTopicId \in PathStrs :
        FindShortestPath(fromTopicId, toTopicId) /\ UNCHANGED otherVars

NextPath == FindShortestPathCall

SpecPath == InitPath /\ [][NextPath]_vars

----------------------------------------------------------------------------
(* Read-only queries over any hierarchy of latest versions (the stores of   *)
(* InitPath)                                                                *)

GetTopicTreeCall ==
    \E id \in PathStrs : Running /\ GetTopicTree(id) /\ UNCHANGED otherVars

ValidateHierarchyCall == Running /\ ValidateHierarchy /\ UNCHANGED otherVars

CalculateDistanceCall ==
    \E fromId \in PathStrs, toId \in PathStrs :
        Running /\ CalculateDistance(fromId, toId) /\ UNCHANGED otherVars

MaxDepthInput == 3

FindAllPathsCall ==
    \E fromId \in PathStrs, toId \in PathStrs, maxDepth \in 1..MaxDepthInput :
        Running /\ FindAllPaths(fromId, toId, maxDepth) /\ UNCHANGED otherVars

GetAncestorsCall ==
    \E id \in PathStrs : Running /\ GetAncestors(id) /\ UNCHANGED otherVars

GetMaxDepthCall == Running /\ GetMaxDepth /\ UNCHANGED otherVars

BuildTreeCall == Running /\ BuildTree /\ UNCHANGED otherVars

NextQuery ==
    \/ GetTopicTreeCall \/ ValidateHierarchyCall \/ CalculateDistanceCall
    \/ FindAllPathsCall \/ GetAncestorsCall \/ GetMaxDepthCall \/ BuildTreeCall

SpecQuery == InitPath /\ [][NextQuery]_vars

----------------------------------------------------------------------------
(* The hierarchy of the latest versions, read off the store directly *)

\* the ids with at least one stored version
Stored(t) == {k \in DOMAIN t : Len(t[k]) > 0}

\* the parent id of the latest version of x, as a set of none or one
ParentIds(t, x) ==
    IF x \in Stored(t) /\ Truthy(t[x][Len(t[x])].parentTopicId)
    THEN {t[x][Len(t[x])].parentTopicId} ELSE {}

\* the ids reached from x by following one to n parent links
RECURSIVE AncestorsWithin(_, _, _)
AncestorsWithin(t, x, n) ==
    IF n = 0 THEN {}
    ELSE ParentIds(t, x) \cup UNION {AncestorsWithin(t, p, n - 1) : p \in ParentIds(t, x)}

\* the ids on the ancestor chain of x
AncestorIds(t, x) == AncestorsWithin(t, x, Cardinality(DOMAIN t) + 1)

\* no latest-version topic reaches its own id by parent links
Acyclic(t) == \A x \in Stored(t) : x \notin AncestorIds(t, x)

\* the latest version stored under x
Latest(t, x) == t[x][Len(t[x])]

\* the root of the tree of x in an acyclic hierarchy: the first topic up the chain
\* whose parent is absent or resolves to no stored topic
RECURSIVE RootOf(_, _)
RootOf(t, x) ==
    IF ParentIds(t, x) \cap Stored(t) = {} THEN x
    ELSE RootOf(t, CHOOSE p \in ParentIds(t, x) : TRUE)

\* the latest versions on the chain of parent links from ancestor a down to x
RECURSIVE ChainDown(_, _, _)
ChainDown(t, a, x) ==
    IF x = a THEN <<Latest(t, a)>>
    ELSE ChainDown(t, a, CHOOSE p \in ParentIds(t, x) : TRUE) \o <<Latest(t, x)>>

\* the sum of the edge weights along a path of topics
RECURSIVE PathWeight(_)
PathWeight(path) ==
    IF Len(path) <= 1 THEN 0
    ELSE getEdgeWeight(path[1], path[2]) + PathWeight(Tail(path))

----------------------------------------------------------------------------
(* Two moveTopic calls in flight at once.  moveTopic is an async function:   *)
(* repository.findById reads the store when it is called and the call then  *)
(* awaits, so each read is part of the step that makes it and each           *)
(* continuation is one step.  The store starts as an acyclic hierarchy of    *)
(* topics at version 1 whose set parents are all stored.                     *)

InitMoveRace ==
    \E keys \in SUBSET PathStrs :
        \E o \in KeyOrders(keys), parentOf \in [keys -> {Undefined} \cup keys] :
            /\ topics = [s \in PathStrs |->
                            IF s \in keys
                            THEN <<Topic(HierName, ContentPool[1], parentOf[s], 1, s)>>
                            ELSE <<>>]
            /\ Acyclic(topics)
            /\ order = o
            /\ ret = Ret("init", <<>>, "ok", <<>>)
            /\ calls = [w \in Writers |-> IdleCall]
            /\ users = <<>> /\ usersByEmail = <<>> /\ userObjs = <<>> /\ dump = NoDump

\* the call w ends by throwing
MoveThrow(w, status) ==
    /\ calls' = [calls EXCEPT ![w] = [pc |-> "done", topicId |-> calls[w].topicId,
                                      newParentId |-> calls[w].newParentId,
                                      status |-> status]]
    /\ ret' = Ret("move", <<calls[w].topicId, calls[w].newParentId>>, status, <<>>)
    /\ UNCHANGED <<topics, order>>

\* the call w builds newVersion from the topic it read and calls repository.save,
\* which awaits newVersion.validate()
MoveBuild(w) ==
    /\ calls' = [calls EXCEPT ![w] =
                    [pc |-> "awaitValidate", topicId |-> calls[w].topicId,
                     newParentId |-> calls[w].newParentId,
                     newVersion |-> [createNewVersion(calls[w].topic[1]) EXCEPT
                                        !.parentTopicId =
                                            IF Truthy(calls[w].newParentId)
                                            THEN calls[w].newParentId ELSE Undefined]]]
    /\ UNCHANGED <<topics, order, ret>>

\* the head of the while loop of wouldCreateCircularReference with the given
\* currentParentId: the loop ends, returns true, or calls findById and awaits
MoveLoopHead(w, currentParentId) ==
    IF ~Truthy(currentParentId) THEN MoveBuild(w)
    ELSE IF currentParentId = calls[w].topicId THEN MoveThrow(w, "CircularReference")
    ELSE /\ calls' = [calls EXCEPT ![w] =
                         [pc |-> "awaitParent", topicId |-> calls[w].topicId,
                          newParentId |-> calls[w].newParentId, topic |-> calls[w].topic,
                          parent |-> findTopicById(topics, currentParentId)]]
         /\ UNCHANGED <<topics, order, ret>>

\* moveTopic(topicId, newParentId) is called: findById(topicId) reads the store
MoveBegin(w, topicId, newParentId) ==
    /\ calls[w].pc = "idle"
    /\ calls' = [calls EXCEPT ![w] = [pc |-> "awaitFindById", topicId |-> topicId,
                                      newParentId |-> newParentId,
                                      topic |-> findTopicById(topics, topicId)]]
    /\ UNCHANGED <<topics, order, ret>>

\* the call resumes with topic: it throws not found, or enters the check (for a
\* truthy newParentId), or goes on to build the new version
MoveResume(w) ==
    /\ calls[w].pc = "awaitFindById"
    /\ IF Len(calls[w].topic) = 0 THEN MoveThrow(w, "NotFound")
       ELSE IF ~Truthy(calls[w].newParentId) THEN MoveBuild(w)
       ELSE MoveLoopHead(w, calls[w].newParentId)

\* wouldCreateCircularReference resumes with parent: the loop breaks on a missing
\* parent, else it goes to its head with parent.parentTopicId
MoveWalk(w) ==
    /\ calls[w].pc = "awaitParent"
    /\ IF Len(calls[w].parent) = 0 THEN MoveBuild(w)
       ELSE MoveLoopHead(w, calls[w].parent[1].parentTopicId)

\* repository.save resumes with isValid: it throws, or stores newVersion and the
\* call returns it
MoveSave(w) ==
    /\ calls[w].pc = "awaitValidate"
    /\ IF ~validate(calls[w].newVersion) THEN MoveThrow(w, "ValidationFailed")
       ELSE /\ topics' = saveTopic(topics, calls[w].newVersion)
            /\ order' = mapSetOrder(order, calls[w].newVersion.id)
            /\ calls' = [calls EXCEPT ![w] = [pc |-> "done", topicId |-> calls[w].topicId,
                                              newParentId |-> calls[w].newParentId,
                                              status |-> "ok"]]
            /\ ret' = Ret("move", <<calls[w].topicId, calls[w].newParentId>>, "ok",
                          <<calls[w].newVersion>>)

MoveBeginStep ==
    \E w \in Writers, topicId \in PathStrs, newParentId \in {Null} \cup PathStrs :
        MoveBegin(w, topicId, newParentId)
            /\ UNCHANGED <<users, usersByEmail, userObjs, dump>>

MoveResumeStep ==
    \E w \in Writers : MoveResume(w) /\ UNCHANGED <<users, usersByEmail, userObjs, dump>>

MoveWalkStep ==
    \E w \in Writers : MoveWalk(w) /\ UNCHANGED <<users, usersByEmail, userObjs, dump>>

MoveSaveStep ==
    \E w \in Writers : MoveSave(w) /\ UNCHANGED <<users, usersByEmail, userObjs, dump>>

NextMoveRace == MoveBeginStep \/ MoveResumeStep \/ MoveWalkStep \/ MoveSaveStep

SpecMoveRace == InitMoveRace /\ [][NextMoveRace]_vars

----------------------------------------------------------------------------
(* Claims *)

\* C1: in every reachable state the versions stored under every id are numbered
\* 1, 2, ..., N in ascending order, with no gap and no duplicate.
C1_VersionsContiguous ==
    \A id \in DOMAIN topics :
        \A i \in 1..Len(findTopicVersions(topics, id)) :
            findTopicVersions(topics, id)[i].version = i

\* C2: update(id, data) on a stored id whose latest version is k stores and returns
\* a snapshot with the same id and version k + 1 in which name, content and
\* parentTopicId are the supplied value where one is supplied and the value of
\* version k otherwise, and findById(id) then returns that snapshot; the call is
\* refused, with nothing stored, only when a supplied name or content is ill-formed.
C2_UpdateAppendsMergedVersion ==
    [][\A id \in Strs, d \in UpdateData :
        (ret'.op = "update" /\ ret'.args = <<id>> /\ id \in Stored(topics)
            /\ Update(id, d.name, d.content, d.parentTopicId))
        => LET old == topics[id][Len(topics[id])]
               merged == [id |-> id,
                          version |-> old.version + 1,
                          name |-> IF d.name = Undefined THEN old.name ELSE d.name,
                          content |-> IF d.content = Undefined
                                      THEN old.content ELSE d.content,
                          parentTopicId |-> IF d.parentTopicId = Undefined
                                            THEN old.parentTopicId
                                            ELSE d.parentTopicId]
           IN  IF d.name \in {EmptyStr, BlankStr, LongStr}
                  \/ d.content \in {EmptyStr, BlankStr}
               THEN ret'.status = "ValidationFailed" /\ topics' = topics
               ELSE /\ ret'.status = "ok"
                    /\ ret'.value = <<merged>>
                    /\ topics'[id] = Append(topics[id], merged)
                    /\ findTopicById(topics', id) = <<merged>>]_vars

\* C2 witness: an update has returned version 2 of a topic, with the name carried
\* over from version 1 and another content
C2_Witness ==
    /\ ret.op = "update" /\ ret.status = "ok"
    /\ \E id \in Strs :
        /\ Len(topics[id]) = 2
        /\ ret.value = <<topics[id][2]>>
        /\ topics[id][2].version = topics[id][1].version + 1
        /\ topics[id][2].name = topics[id][1].name
        /\ topics[id][2].content /= topics[id][1].content

\* C3: a stored snapshot is never changed: after a successful update or move on an
\* id, every version j stored for that id before the call is still returned by
\* findById(id, j), with the same name, content and parentTopicId.
C3_StoredVersionsKept ==
    [][(ret'.op \in {"update", "move"} /\ ret'.status = "ok")
        => LET id == ret'.args[1]
           IN  /\ Len(topics'[id]) = Len(topics[id]) + 1
               /\ \A j \in 1..Len(topics[id]) :
                    findTopicByIdVersion(topics', id, topics[id][j].version)
                        = <<topics[id][j]>>]_vars

\* C3 witness: an update or move has succeeded on a topic whose earlier version is
\* still stored beside the new one
C3_Witness ==
    /\ ret.op \in {"update", "move"} /\ ret.status = "ok"
    /\ Len(topics[ret.args[1]]) = 2
    /\ topics[ret.args[1]][2] = ret.value[1]
    /\ topics[ret.args[1]][1].parentTopicId /= topics[ret.args[1]][2].parentTopicId

\* C4: in an acyclic hierarchy, move(id, newParentId) of a stored topic fails with
\* the circular-reference error and stores nothing whenever newParentId is id or a
\* descendant of id (id lies on the ancestor chain of newParentId).
C4_MoveUnderDescendantRefused ==
    [][\A id \in HierStrs, newParentId \in HierStrs :
        (/\ Running /\ Acyclic(topics) /\ id \in Stored(topics)
         /\ (newParentId = id \/ id \in AncestorIds(topics, newParentId))
         /\ Move(id, newParentId))
        => (ret'.status = "CircularReference" /\ topics' = topics /\ order' = order)]_vars

\* C4 witness: a move of a topic under its grandchild has been refused
C4_Witness ==
    /\ ret.op = "move" /\ ret.status = "CircularReference"
    /\ ret.args[1] /= ret.args[2]
    /\ ret.args[1] \in AncestorIds(topics, ret.args[2])
    /\ ret.args[1] \notin ParentIds(topics, ret.args[2])
    /\ Acyclic(topics)

\* C5: after any sequence of create calls (fresh id, parent absent or stored) and
\* move calls, no latest-version topic reaches its own id by parentTopicId links.
C5_CycleFree == Acyclic(topics)

\* C5 witness: a move has put a topic under another one that has a parent itself
C5_Witness ==
    /\ ret.op = "move" /\ ret.status = "ok"
    /\ Truthy(ret.args[2])
    /\ ParentIds(topics, ret.args[1]) = {ret.args[2]}
    /\ ParentIds(topics, ret.args[2]) /= {}
    /\ ret.args[2] \in Stored(topics)

\* C6: delete(id) on an id with at least one version removes every version of that
\* id and returns true, so that findVersions(id) is empty and findById(id) finds
\* nothing; delete on an unknown id returns false.
C6_DeleteRemovesAllVersions ==
    [][(ret'.op = "delete")
        => LET id == ret'.args[1]
           IN  IF id \in Stored(topics)
               THEN /\ ret'.status = "true"
                    /\ findTopicVersions(topics', id) = <<>>
                    /\ findTopicById(topics', id) = <<>>
               ELSE ret'.status = "false"]_vars

\* C7: delete(id) changes the version list of no other id, the children of id and
\* a topic whose id is the deleted topic's name included.
C7_DeleteTouchesNoOtherTopic ==
    [][(ret'.op = "delete")
        => \A other \in (DOMAIN topics) \ {ret'.args[1]} :
            topics'[other] = topics[other]]_vars

\* C8: findShortestPath(A, A) is the one-element path [A] for a stored topic A and
\* the empty path for an unknown A; findShortestPath(A, B) is the empty path
\* whenever A and B lie in different trees of the forest, roots being the topics
\* whose parent is absent or does not resolve.
C8_SelfPathAndDisjointTrees ==
    ret.op = "findShortestPath"
    => LET a == ret.args[1]
           b == ret.args[2]
       IN  /\ (a = b /\ a \in Stored(topics)) => ret.value = <<Latest(topics, a)>>
           /\ (a = b /\ a \notin Stored(topics)) => ret.value = <<>>
           /\ (/\ a /= b /\ Acyclic(topics)
               /\ a \in Stored(topics) /\ b \in Stored(topics)
               /\ RootOf(topics, a) /= RootOf(topics, b))
              => ret.value = <<>>

\* C9: in an acyclic hierarchy, for a topic T and an ancestor A of T,
\* findShortestPath(A, T) is the chain of parent links from A down to T, in order,
\* of total weight one per link.
C9_AncestorPathIsChain ==
    (/\ ret.op = "findShortestPath" /\ Acyclic(topics)
     /\ ret.args[1] \in Stored(topics) /\ ret.args[2] \in Stored(topics)
     /\ ret.args[1] \in AncestorIds(topics, ret.args[2]))
    => /\ ret.value = ChainDown(topics, ret.args[1], ret.args[2])
       /\ PathWeight(ret.value) = Len(ret.value) - 1

\* C9 witness: the path from a grandparent down to its grandchild has been found
C9_Witness ==
    /\ ret.op = "findShortestPath" /\ Acyclic(topics)
    /\ ret.args[1] \in Stored(topics) /\ ret.args[2] \in Stored(topics)
    /\ ret.args[1] \in AncestorIds(topics, ret.args[2])
    /\ Len(ret.value) = 3
    /\ PathWeight(ret.value) = 2

\* C10: for two distinct siblings B and C under the stored parent A (in an acyclic
\* hierarchy), findShortestPath(B, C) is the three-element path [B, A, C] through
\* the parent.
C10_SiblingPathThroughParent ==
    (/\ ret.op = "findShortestPath" /\ Acyclic(topics)
     /\ ret.args[1] /= ret.args[2]
     /\ ret.args[1] \in Stored(topics) /\ ret.args[2] \in Stored(topics)
     /\ ParentIds(topics, ret.args[1]) = ParentIds(topics, ret.args[2])
     /\ ParentIds(topics, ret.args[1]) \cap Stored(topics) /= {}
     /\ ParentIds(topics, ret.args[1]) \cap {ret.args[1], ret.args[2]} = {})
    => LET a == CHOOSE p \in ParentIds(topics, ret.args[1]) : TRUE
       IN  ret.value = <<Latest(topics, ret.args[1]), Latest(topics, a),
                         Latest(topics, ret.args[2])>>

\* the ids of the latest-version topics whose parentTopicId is id
ChildIds(t, id) == {x \in Stored(t) : ParentIds(t, x) = {id}}

\* a returned tree node holds the latest version of a topic and exactly one
\* subtree per child of that topic, each of them such a node again
RECURSIVE TreeExact(_, _)
TreeExact(t, tree) ==
    /\ tree.topic.id \in Stored(t)
    /\ tree.topic = Latest(t, tree.topic.id)
    /\ Len(tree.children) = Cardinality(ChildIds(t, tree.topic.id))
    /\ {tree.children[i].topic.id : i \in 1..Len(tree.children)} = ChildIds(t, tree.topic.id)
    /\ \A i \in 1..Len(tree.children) : TreeExact(t, tree.children[i])

\* C11: in an acyclic forest, getTopicTree(A) of a stored topic A returns a tree
\* whose root is A and whose children list, at the root and at every node below
\* it, has exactly one entry per latest-version topic whose parentTopicId is the
\* id of that node.
C11_TreeChildrenExact ==
    (ret.op = "getTopicTree" /\ Acyclic(topics) /\ ret.args[1] \in Stored(topics))
    => /\ ret.status = "ok"
       /\ Len(ret.value) = 1
       /\ ret.value[1].topic.id = ret.args[1]
       /\ TreeExact(topics, ret.value[1])

\* C11 witness: a tree has been returned whose root has a child that has a child
\* of its own
C11_Witness ==
    /\ ret.op = "getTopicTree" /\ ret.status = "ok" /\ Acyclic(topics)
    /\ Len(ret.value[1].children) = 1
    /\ Len(ret.value[1].children[1].children) = 1
\* the walk up the ancestor chain of x comes to an id a second time: x or one of
\* its ancestors lies on a cycle of parent links
ChainRevisits(t, x) ==
    \E y \in {x} \cup AncestorIds(t, x) : y \in Stored(t) /\ y \in AncestorIds(t, y)

\* C12: validateHierarchy() reports "non-existent parent" for exactly the
\* latest-version topics whose parentTopicId is set and resolves to no stored
\* topic, reports "circular reference" for exactly the topics whose ancestor walk
\* revisits an id, names no other topic, and isValid is true exactly when the
\* error list is empty.
C12_ValidateHierarchyExact ==
    ret.op = "validateHierarchy"
    => LET res == ret.value[1]
           Named(msg) == {res.errors[i].topic :
                            i \in {j \in 1..Len(res.errors) : res.errors[j].msg = msg}}
       IN  /\ Named("references non-existent parent")
                = {x \in Stored(topics) :
                        ParentIds(topics, x) /= {}
                        /\ ParentIds(topics, x) \cap Stored(topics) = {}}
           /\ Named("has circular reference in hierarchy")
                = {x \in Stored(topics) : ChainRevisits(topics, x)}
           /\ \A i \in 1..Len(res.errors) :
                res.errors[i].msg \in {"references non-existent parent",
                                       "has circular reference in hierarchy"}
           /\ res.isValid = (Len(res.errors) = 0)

\* C12 witness: a scan has reported both topics of a cycle A -> B -> A
C12_Witness ==
    /\ ret.op = "validateHierarchy"
    /\ ~ret.value[1].isValid
    /\ \E a, b \in Stored(topics) :
        /\ a /= b /\ ParentIds(topics, a) = {b} /\ ParentIds(topics, b) = {a}
        /\ \E i, j \in 1..Len(ret.value[1].errors) :
            /\ ret.value[1].errors[i]
                    = [msg |-> "has circular reference in hierarchy", topic |-> a]
            /\ ret.value[1].errors[j]
                    = [msg |-> "has circular reference in hierarchy", topic |-> b]
C14_CreateStoresVersionOne ==
    [][\A d \in CreateData :
        (ret'.op = "create" /\ ret'.args = <<d.id>> /\ ret'.status = "ok"
            /\ Create(d.id, d.version, d.name, d.content, d.parentTopicId))
        => LET created == ret'.value[1]
           IN  /\ created.version = 1
               /\ created.name = d.name
               /\ created.content = d.content
               /\ created.parentTopicId = d.parentTopicId
               /\ findTopicVersions(topics', created.id) = <<created>>
               /\ \A other \in Strs \ {created.id} : topics'[other] = topics[other]]_vars
\* both calls have returned a topic for the same id after reading the same
\* latest version k
BothReadSame(w1, w2) ==
    /\ w1 /= w2
    /\ calls[w1].pc = "done" /\ calls[w2].pc = "done"
    /\ calls[w1].status = "ok" /\ calls[w2].status = "ok"
    /\ calls[w1].id = calls[w2].id
    /\ calls[w1].readVersion = calls[w2].readVersion

\* C15: when two update calls for the same id have both read the latest version k
\* before either saved, neither fails (no call on the stored id fails unless its
\* own data are ill-formed), the id
\* ends with exactly one snapshot at version k + 1 and none at k + 2, that
\* snapshot is the one saved second, and the content supplied by the call that
\* saved first (when the second call did not bring the same) is in no stored
\* version.
C15_LastWriterWins ==
    /\ \A w \in Writers :
        (calls[w].pc = "done" /\ calls[w].id \in Stored(topics)
            /\ calls[w].data.content /= BlankStr)
        => calls[w].status = "ok"
    /\ \A w1, w2 \in Writers :
        (BothReadSame(w1, w2) /\ calls[w1].saveNo = 1 /\ calls[w2].saveNo = 2)
        => LET id == calls[w1].id
               k == calls[w1].readVersion
               AtVersion(n) == {i \in 1..Len(topics[id]) : topics[id][i].version = n}
           IN  /\ Cardinality(AtVersion(k + 1)) = 1
               /\ AtVersion(k + 2) = {}
               /\ Latest(topics, id) = calls[w2].newVersion
               /\ (calls[w1].data.content /= Undefined
                        /\ calls[w1].data.content /= calls[w2].newVersion.content)
                    => \A i \in 1..Len(topics[id]) :
                            topics[id][i].content /= calls[w1].data.content

\* C15 witness: both calls read version k, both saved, with different contents
C15_Witness ==
    \E w1, w2 \in Writers :
        /\ BothReadSame(w1, w2) /\ calls[w1].saveNo = 1 /\ calls[w2].saveNo = 2
        /\ calls[w1].data.content \in RaceContents
        /\ calls[w2].data.content \in RaceContents
        /\ calls[w1].data.content /= calls[w2].data.content
\* the stored users: the objects the Map users holds
StoredUsers(us, objs) == {objs[us[i].ref] : i \in 1..Len(us)}

\* C17: no two stored users have the same email, in every state reached by user
\* create, update and delete calls; and a create whose email a stored user holds
\* fails with the conflict error and adds no user.
C17_EmailUnique ==
    [][/\ \A i, j \in 1..Len(users') :
            userObjs'[users'[i].ref].email = userObjs'[users'[j].ref].email => i = j
       /\ \A d \in UserCreateData :
            (/\ \E u \in StoredUsers(users, userObjs) : u.email = d.email
             /\ ret'.op = "createUser" /\ ret'.args = <<d.id>>
             /\ UserCreate(d.id, d.name, d.email, d.role))
            => (ret'.status = "ConflictError" /\ users' = users)]_vars
\* the five fields of a snapshot the transfer is about
TransferFields(x) == <<x.id, x.name, x.content, x.version, x.parentTopicId>>

\* the store t holds exactly the ids of the exported value d, each with the same
\* version list in the same order
SameAsExported(t, d) ==
    /\ Stored(t) = Keys(d.topics.ids)
    /\ \A id \in Stored(t) :
        /\ Len(t[id]) = Len(d.topics.versions[id])
        /\ \A i \in 1..Len(t[id]) :
            TransferFields(t[id][i]) = TransferFields(d.topics.versions[id][i])

\* C16: the value an export returns holds the ids of the store and the ordered
\* version list of each, and importing it into a store in any other state leaves
\* exactly those ids, each with that version list (id, name, content, version,
\* parentTopicId of each snapshot); ids stored only before the import are gone.
C16_ExportImportRoundTrip ==
    [][/\ ret'.op = "exportData" => SameAsExported(topics, dump')
       /\ ret'.op = "importData"
            => (SameAsExported(topics', dump) /\ Keys(order') = Keys(dump.topics.ids))]_vars

\* C16 witness: an import has brought back a topic with its two versions
C16_Witness ==
    /\ ret.op = "importData"
    /\ \E id \in Stored(topics) : Len(topics[id]) = 2 /\ topics[id][2].version = 2
\* the derived undirected graph of the latest versions: a parent-child edge joins
\* a stored topic and its stored parent, a sibling edge two stored topics that
\* share a stored parent
ParentChildEdge(t, a, b) ==
    /\ a \in Stored(t) /\ b \in Stored(t) /\ a /= b
    /\ (ParentIds(t, a) = {b} \/ ParentIds(t, b) = {a})

SiblingEdge(t, a, b) ==
    /\ a \in Stored(t) /\ b \in Stored(t) /\ a /= b
    /\ ParentIds(t, a) = ParentIds(t, b)
    /\ ParentIds(t, a) \cap Stored(t) /= {}

DerivedEdge(t, a, b) == ParentChildEdge(t, a, b) \/ SiblingEdge(t, a, b)

DerivedWeight(t, a, b) == IF ParentChildEdge(t, a, b) THEN 1 ELSE 2

\* the smallest element of a non-empty set of numbers
SetMin(S) == CHOOSE x \in S : \A y \in S : x <= y

\* the least total weight of a walk of at most n derived edges from a to b,
\* Infinity when there is none
RECURSIVE MinWeightWithin(_, _, _, _)
MinWeightWithin(t, a, b, n) ==
    IF a = b THEN 0
    ELSE IF n = 0 THEN Infinity
    ELSE SetMin({Infinity}
                \cup {DerivedWeight(t, a, c) + MinWeightWithin(t, c, b, n - 1) :
                        c \in {x \in Stored(t) : DerivedEdge(t, a, x)}})

MinWeight(t, a, b) == MinWeightWithin(t, a, b, Cardinality(Stored(t)))

\* the total weight of a path of topics in the derived graph
RECURSIVE DerivedPathWeight(_, _)
DerivedPathWeight(t, path) ==
    IF Len(path) <= 1 THEN 0
    ELSE DerivedWeight(t, path[1].id, path[2].id) + DerivedPathWeight(t, Tail(path))

\* C18: for two distinct stored topics, findShortestPath(from, to) returns a
\* non-empty path exactly when to is reachable from from in the derived graph
\* (parent-child edges of weight 1, sibling edges of weight 2); a returned path
\* starts at from, ends at to, repeats no topic, joins each consecutive pair by a
\* derived edge, and has the least total weight of all paths between the two.
C18_ShortestPathIsMinimal ==
    (/\ ret.op = "findShortestPath"
     /\ ret.args[1] /= ret.args[2]
     /\ ret.args[1] \in Stored(topics) /\ ret.args[2] \in Stored(topics))
    => LET path == ret.value
           least == MinWeight(topics, ret.args[1], ret.args[2])
       IN  /\ (Len(path) > 0) = (least < Infinity)
           /\ Len(path) > 0
                => /\ path[1].id = ret.args[1]
                   /\ path[Len(path)].id = ret.args[2]
                   /\ \A i \in 1..Len(path) : path[i] = Latest(topics, path[i].id)
                   /\ \A i, j \in 1..Len(path) : path[i].id = path[j].id => i = j
                   /\ \A i \in 1..(Len(path) - 1) :
                        DerivedEdge(topics, path[i].id, path[i + 1].id)
                   /\ DerivedPathWeight(topics, path) = least
\* C19: calculateDistance(from, to) is the number of hops of the path that
\* findShortestPath(from, to) returns (its length minus one) and -1 exactly when
\* that path is empty; so it is 0 for from = to on a stored topic, and -1 when
\* either topic is unknown or the two are not connected in the derived graph.
C19_DistanceIsHopCount ==
    ret.op = "calculateDistance"
    => LET a == ret.args[1]
           b == ret.args[2]
           path == findShortestPath(topics, order, a, b)
           distance == ret.value[1]
       IN  /\ Len(path) > 0 => distance = Len(path) - 1
           /\ (distance = 0 - 1) = (Len(path) = 0)
           /\ (a = b /\ a \in Stored(topics)) => distance = 0
           /\ (a \notin Stored(topics) \/ b \notin Stored(topics)) => distance = 0 - 1
           /\ (a \in Stored(topics) /\ b \in Stored(topics)
                    /\ MinWeight(topics, a, b) = Infinity)
                => distance = 0 - 1
\* the simple paths (as sequences of ids) from a to b in the derived graph with
\* at most n hops that avoid the topics in seen
RECURSIVE SimplePathsWithin(_, _, _, _, _)
SimplePathsWithin(t, a, b, seen, n) ==
    IF a = b THEN {<<a>>}
    ELSE IF n = 0 THEN {}
    ELSE UNION {{<<a>> \o p : p \in SimplePathsWithin(t, c, b, seen \cup {a}, n - 1)} :
                c \in {x \in Stored(t) \ (seen \cup {a}) : DerivedEdge(t, a, x)}}

\* every parent reference resolves to a stored topic and no chain of parents
\* comes back to a topic
ResolvedForest(t) ==
    /\ Acyclic(t)
    /\ \A id \in Stored(t) : ParentIds(t, id) \subseteq Stored(t)

\* C20: in a hierarchy whose parent references all resolve and form no cycle,
\* findAllPaths(from, to, maxDepth) between two stored topics returns exactly
\* the simple paths from from to to in the derived graph that have at most
\* maxDepth hops (a path of exactly maxDepth hops included), each once, made of
\* the latest versions and ordered by non-decreasing length.
C20_AllPathsWithinDepth ==
    (/\ ret.op = "findAllPaths"
     /\ ResolvedForest(topics)
     /\ ret.args[1] \in Stored(topics)
     /\ ret.args[2] \in Stored(topics))
    => LET paths == ret.value
           ids(p) == [i \in 1..Len(p) |-> p[i].id]
           expected == SimplePathsWithin(topics, ret.args[1], ret.args[2], {}, ret.args[3])
       IN  /\ {ids(paths[i]) : i \in 1..Len(paths)} = expected
           /\ Len(paths) = Cardinality(expected)
           /\ \A i \in 1..Len(paths) : \A k \in 1..Len(paths[i]) :
                  paths[i][k] = Latest(topics, paths[i][k].id)
           /\ \A i \in 1..Len(paths) : \A j \in i..Len(paths) :
                  Len(paths[i]) <= Len(paths[j])
\* the latest versions of the stored ancestors of x in an acyclic hierarchy, the
\* farthest first and the direct parent last
RECURSIVE ChainAbove(_, _)
ChainAbove(t, x) ==
    IF ParentIds(t, x) \cap Stored(t) = {} THEN <<>>
    ELSE LET p == CHOOSE q \in ParentIds(t, x) : TRUE
         IN  Append(ChainAbove(t, p), Latest(t, p))

\* C21: getAncestors of a stored topic returns in every store, also one whose
\* parent links form a cycle: it follows at most as many parent links as there
\* are topics, and in an acyclic hierarchy it returns the ancestors root-first
\* (the farthest ancestor first, the direct parent last).
C21_AncestorsTerminate ==
    ret.op = "getAncestors"
    => /\ ret.status = "ok"
       /\ Len(ret.value) <= Cardinality(Stored(topics))
       /\ Acyclic(topics) => ret.value = ChainAbove(topics, ret.args[1])
\* C22: every call move(id, newParentId) returns, with a topic or with an error,
\* in every store reached through create, update, move and delete, also when
\* the ancestor chain of newParentId holds a parent cycle that does not pass
\* through id.
C22_MoveTerminates == ret.op = "move" => ret.status /= "Diverges"
\* the entries of a version list, as a set
Entries(versions) == {versions[i] : i \in 1..Len(versions)}

\* C23: a save of a snapshot whose (id, version) is stored replaces that one
\* entry and leaves the length of the list unchanged, any other save adds one
\* entry; after any sequence of saves in any version order the list of each id
\* is strictly ascending by version; findById(id) returns the snapshot of the
\* highest version of id (none when id is unknown) and findById(id, v) the
\* snapshot of version v or none.
C23_SaveAndFindById ==
    [][/\ (ret'.op = "save" /\ ret'.status = "ok")
          => LET topic == ret'.value[1]
                 old == topics[topic.id]
                 new == topics'[topic.id]
                 same == {i \in 1..Len(old) : old[i].version = topic.version}
             IN  /\ \A k \in DOMAIN topics : k /= topic.id => topics'[k] = topics[k]
                 /\ same /= {}
                      => /\ Len(new) = Len(old)
                         /\ \A i \in 1..Len(old) :
                                new[i] = IF i \in same THEN topic ELSE old[i]
                 /\ same = {}
                      => /\ Len(new) = Len(old) + 1
                         /\ Entries(new) = Entries(old) \cup {topic}
       /\ \A k \in DOMAIN topics' : \A i, j \in 1..Len(topics'[k]) :
              i < j => topics'[k][i].version < topics'[k][j].version
       /\ ret'.op = "findById"
          => LET versions == topics[ret'.args[1]]
             IN  IF Len(versions) = 0 THEN ret'.value = <<>>
                 ELSE /\ Len(ret'.value) = 1
                      /\ ret'.value[1] \in Entries(versions)
                      /\ \A i \in 1..Len(versions) :
                             versions[i].version <= ret'.value[1].version
       /\ ret'.op = "findByIdVersion"
          => LET versions == topics[ret'.args[1]]
                 found == {x \in Entries(versions) : x.version = ret'.args[2]}
             IN  IF found = {} THEN ret'.value = <<>>
                 ELSE Len(ret'.value) = 1 /\ ret'.value[1] \in found
      ]_vars

\* a save of version 1 has succeeded on a list that holds every version up to
\* the highest: it replaced the entry of version 1, or came after the saves of
\* the higher versions
C23_Witness ==
    /\ ret.op = "save" /\ ret.status = "ok"
    /\ ret.value[1].version = 1
    /\ Len(topics[ret.args[1]]) = MaxStoreVersion

\* the ids of the nodes of the tree under the component of id, the component
\* itself included, each as often as it occurs; n bounds the depth
RECURSIVE NodesUnder(_, _, _)
RECURSIVE NodesUnderAll(_, _, _)
NodesUnder(forest, id, n) ==
    IF n = 0 THEN <<id>> ELSE <<id>> \o NodesUnderAll(forest, forest.children[id], n - 1)

NodesUnderAll(forest, ids, n) ==
    IF Len(ids) = 0 THEN <<>>
    ELSE NodesUnder(forest, ids[1], n) \o NodesUnderAll(forest, Tail(ids), n)

\* how often x occurs in the sequence s
Occurrences(s, x) == Cardinality({i \in 1..Len(s) : s[i] = x})

\* C24: buildTree over the latest versions of all topics, whose parent links
\* form no cycle, returns a forest in which every topic is in exactly one node; a topic whose parentTopicId is
\* absent, or set but equal to the id of no topic of the set, is a root of the
\* forest, and every other topic is a child of the node of its parent.
C24_BuildTreeForest ==
    (ret.op = "buildTree" /\ Acyclic(topics))
    => LET forest == ret.value[1]
           nodes == NodesUnderAll(forest, forest.roots, Cardinality(Stored(topics)))
       IN  \A x \in Stored(topics) :
              /\ Occurrences(nodes, x) = 1
              /\ IF ParentIds(topics, x) \cap Stored(topics) = {}
                 THEN Occurrences(forest.roots, x) = 1
                 ELSE /\ Occurrences(forest.roots, x) = 0
                      /\ \A p \in ParentIds(topics, x) :
                             Occurrences(forest.children[p], x) = 1
IllFormed(name, content, version) ==
    \/ name \in {Undefined, EmptyStr, BlankStr, LongStr}
    \/ content \in {Undefined, EmptyStr, BlankStr}
    \/ version < 1

\* C26: a create or update whose snapshot fails validation (name or content
\* missing, empty or only white space, name longer than 255 characters, version
\* below 1) reports an error and persists nothing: no new id appears, no version
\* is added or replaced, and the latest version of every topic stays as it was.
\* The snapshot of a create has the name and content of the data and, when the
\* data give an id and a version, that version; the snapshot of an update has
\* the name and content of the data where given and of the latest version
\* otherwise.
C26_FailedValidationPersistsNothing ==
    [][/\ \A d \in CreateData :
            (/\ ret'.op = "create" /\ ret'.args = <<d.id>>
             /\ IllFormed(d.name, d.content,
                          IF Truthy(d.id) /\ d.version /= 0 THEN d.version ELSE 1)
             /\ Create(d.id, d.version, d.name, d.content, d.parentTopicId))
            => /\ ret'.status \in {"ValidationError", "ValidationFailed"}
               /\ topics' = topics /\ order' = order
       /\ \A id \in Strs, d \in UpdateData :
            (/\ ret'.op = "update" /\ ret'.args = <<id>> /\ id \in Stored(topics)
             /\ IllFormed(IF d.name = Undefined THEN Latest(topics, id).name ELSE d.name,
                          IF d.content = Undefined
                          THEN Latest(topics, id).content ELSE d.content,
                          Latest(topics, id).version + 1)
             /\ Update(id, d.name, d.content, d.parentTopicId))
            => /\ ret'.status \in {"ValidationError", "ValidationFailed"}
               /\ topics' = topics /\ order' = order
      ]_vars

\* an update of a stored topic has been refused for its data
C26_Witness ==
    /\ ret.op = "update" /\ ret.status = "ValidationFailed"
    /\ ret.args[1] \in Stored(topics)
\* C27: a user update that is refused (invalid email, or email held by another
\* user) leaves the stored user unchanged: findById(id) afterwards returns the
\* name, email and role it returned before the call, and findByEmail returns a
\* user for exactly the emails the stored users have.
C27_FailedUserUpdateChangesNothing ==
    [][(ret'.op = "updateUser" /\ ret'.status \in {"ValidationFailed", "EmailExists"})
        => LET id == ret'.args[1]
               before == userObjs[refGet(users, id)]
               after == userObjs'[refGet(users', id)]
           IN  /\ refGet(users', id) /= NoRef
               /\ after.name = before.name
               /\ after.email = before.email
               /\ after.role = before.role
               /\ {usersByEmail'[i].key : i \in 1..Len(usersByEmail')}
                      = {u.email : u \in StoredUsers(users', userObjs')}
      ]_vars
\* C28: update cannot introduce a cycle: in an acyclic hierarchy no successful
\* update(id, {parentId: p}) leaves a state in which a latest-version topic
\* reaches its own id by parentTopicId links, also not for p equal to id or a
\* descendant of id.
C28_UpdateKeepsAcyclic ==
    [][(ret'.op = "update" /\ ret'.status = "ok" /\ Acyclic(topics))
        => Acyclic(topics')]_vars
\* C29: cycle prevention holds under interleaving: when two move calls on
\* different topics of an acyclic hierarchy run at once and interleave at their
\* await points, the hierarchy of latest versions stays free of cycles; move(A, B)
\* together with move(B, A) never ends with B the parent of A and A the parent of B.
C29_ConcurrentMovesKeepAcyclic ==
    (\A w1, w2 \in Writers :
        (w1 /= w2 /\ calls[w1].pc /= "idle" /\ calls[w2].pc /= "idle")
            => calls[w1].topicId /= calls[w2].topicId)
    => Acyclic(topics)
\* C30: move never creates a dangling parent: move(id, newParentId) with a
\* newParentId that is not null and matches no stored topic fails and persists
\* no new version, so that after any sequence of create calls (with an absent or
\* a stored parent) and move calls, without delete, every set parentTopicId of a
\* latest version is the id of a stored topic.
C30_MoveKeepsParentsResolved ==
    [][/\ (/\ ret'.op = "move"
           /\ ret'.args[2] /= Null
           /\ ret'.args[2] \notin Stored(topics))
          => (ret'.status /= "ok" /\ topics' = topics /\ order' = order)
       /\ \A x \in Stored(topics') : ParentIds(topics', x) \subseteq Stored(topics')
      ]_vars
====
